---- MODULE Spec2Model ----
(***************************************************************************)
(* CoinSwipe real-time price service: the PriceSubscriptionManager         *)
(* (server/src/websocket/subscriptionManager.ts) driven by the socket.io   *)
(* handlers of server/src/websocket/socketHandler.ts.                      *)
(*                                                                         *)
(* Node runs every handler to completion; the only suspension point that   *)
(* lets other handlers in is `await fetchTokenPrice` inside a timer tick.  *)
(* A tick is therefore two steps: TimerFire (the interval callback starts  *)
(* and awaits the fetch) and FetchDone (the fetch settles and the rest of  *)
(* the callback runs).  The awaits on addSubscription/removeSubscription   *)
(* resume in the microtask queue, before any timer or socket event, so the *)
(* subscribe, unsubscribe and disconnect handlers are single steps.        *)
(***************************************************************************)
EXTENDS Integers, FiniteSets, Sequences, TLC

(* ---- bounds of the model ---- *)
NumClients == 1
NumGatewayClients == 2
NumIds == 1
NumFailIds == 2
NumCorePrices == 1
NumPriceStrings == 3
MaxObjs == 2
MaxInflight == 2
\* process.env.MAX_CONNECTIONS_PER_IP (socketHandler.ts:268); the default is 10
MaxConnectionsPerIp == 2
NumCallbacks == 2
NumConnClients == 3

(* ---- program constants ---- *)
MAX_ERROR_COUNT == 5
MAX_SUBSCRIPTIONS_PER_CLIENT == 5
ADDRESS_HEX_CHARS == 40

(* ---- values ---- *)
\* socket.id: one per connection, never reused
Clients == 1..NumClients
GatewayClients == 1..NumGatewayClients
ConnClients == 1..NumConnClients
AllClients == Clients \cup GatewayClients \cup ConnClients
\* socket.handshake.address: clients 1, 2 and 3 share an address, 4, 5 and 6 the
\* next
ipOf(c) == (c + 2) \div 3
AllIPs == {ipOf(c) : c \in AllClients}

\* Pair addresses.  k >= 1 stands for a well-formed address; k <= 0 for a
\* malformed string a client may send.
Ids == 1..NumIds
WideIds == 1..(MAX_SUBSCRIPTIONS_PER_CLIENT + 1)
BadIds == {0, -1, -2}
IdStrings == BadIds \cup WideIds \cup Ids

IdText(k) ==
  CASE k >= 1 -> [prefix |-> "0x", hexChars |-> ADDRESS_HEX_CHARS, otherChars |-> 0]
    [] k = 0  -> [prefix |-> "0x", hexChars |-> ADDRESS_HEX_CHARS - 1, otherChars |-> 0]
    [] k = -1 -> [prefix |-> "0x", hexChars |-> ADDRESS_HEX_CHARS - 1, otherChars |-> 1]
    [] OTHER  -> [prefix |-> "",   hexChars |-> ADDRESS_HEX_CHARS, otherChars |-> 0]

\* a validator that reads the prefix and the characters but not the length
validatePairAddressAnyLength(address) ==
  /\ IdText(address).prefix = "0x"
  /\ IdText(address).otherChars = 0

\* /^0x[a-fA-F0-9]{40}$/
validatePairAddress(address) ==
  /\ IdText(address).prefix = "0x"
  /\ IdText(address).hexChars = ADDRESS_HEX_CHARS
  /\ IdText(address).otherChars = 0

\* priceUsd strings.  Strings 2k-1 and 2k spell the same number k in two ways
\* ("1.0", "1.00"), so two different strings can be numerically equal.
Null == 0
PriceStrings == 1..NumPriceStrings
CorePrices == 1..NumCorePrices
parseFloat(s) == (s + 1) \div 2

\* The callbacks a subscribe request may register: the closure the handler
\* builds around socket.emit('priceUpdate', ...).  Two requests of one socket
\* build two closures; where their identity does not matter the requests
\* register the same one.
NoCallback == 0
Callbacks == 1..NumCallbacks
SameCallback == {1}
NoCallbacks == [c \in AllClients |-> NoCallback]

ObjIds == 1..(MaxObjs + MAX_SUBSCRIPTIONS_PER_CLIENT + 1)
NoObj == 0
\* clients: the keys of the Map<clientId, callback>; callbacks: its values
Free == [pairAddress |-> 0, clients |-> {}, callbacks |-> NoCallbacks, lastPrice |-> Null,
         updateInterval |-> FALSE, errorCount |-> 0]
NoTracker == [count |-> 0, inWindow |-> FALSE, subscriptions |-> {}, present |-> FALSE]
Quiet == [kind |-> "none"]

\* the upstream client: callers of makeApiRequest, urls, the clock
NumCallers == 2
NumUrls == 2
TimeStep == 500
MaxNow == 4000
RATE_LIMIT_DELAY == 1000
PRICE_CACHE_TTL == 1000
SEARCH_CACHE_TTL == 20000
Callers == 1..NumCallers
Urls == 1..NumUrls
NoCall == 0
\* what response.json() yields: an object, or a JSON value that is falsy in
\* JavaScript (null, false, 0, "")
Payloads == {"object", "falsy"}
Truthy(data) == data = "object"
NoEntry == [present |-> FALSE, data |-> "falsy", timestamp |-> 0, ttl |-> 0]
\* url 1 is a search url (getTrendingTokens), the others are price urls
\* (fetchTokenPrice)
TtlOf(url) == IF url = 1 THEN SEARCH_CACHE_TTL ELSE PRICE_CACHE_TTL
Idle == [pc |-> "idle", url |-> 0, cacheTtl |-> 0, wake |-> 0]

\* the trending routes: concurrent HTTP requests, token lists, limits
NumRequesters == 2
NumTokens == 2
MaxFarSteps == 4
CACHE_DURATION == 20000
Requesters == 1..NumRequesters
\* the token lists fetchTrendingTokens may build, [] among them
TokenLists == {<<>>} \cup {<<t>> : t \in 1..NumTokens} \cup {<<1, t>> : t \in 2..NumTokens}
Limits == 1..NumTokens
NoRequest == [pc |-> "idle", route |-> "none", now |-> 0, cacheAge |-> 0, limit |-> 0,
              forceRefresh |-> FALSE]
\* the provider during one fetchTrendingTokens: down (every request fails), or
\* up and answering with the pairs of a token list
Upstreams == {[ok |-> FALSE, tokens |-> <<>>]} \cup {[ok |-> TRUE, tokens |-> l] : l \in TokenLists}

\* the CoinSwipe contract: accounts, amounts, fee arguments
NumAccounts == 2
MaxBalance == 2
MAX_FEE == 10000
ZeroAddress == 0
Accounts == 1..NumAccounts
Addresses == Accounts \cup {ZeroAddress}
Amounts == 0..MaxBalance
\* uint256 fee arguments on both sides of the limit
FeeArgs == {0, MAX_FEE \div 100, MAX_FEE, MAX_FEE + 1}
\* the _token argument of emergencyWithdraw: address(0) for ETH, or the token
EthToken == 0
Erc20Token == 1
WETH == 2
\* what a call of an external ERC20 token's transfer may do
TokenOutcomes == {"transfers", "reverts", "returns false"}

VARIABLES
  cstate,             \* per socket: "idle" (not yet connected), "live", "closed"
  connectionTracker,  \* Map<ip, {count, lastConnection, subscriptions}>
  subscriptions,      \* PriceSubscriptionManager.subscriptions: pairAddress -> object
  heap,               \* the TokenSubscription objects, by reference
  inflight,           \* per object: ticks awaiting fetchTokenPrice
  overtaken,          \* history, per object: how many of those ticks (the oldest
                      \* ones) started their fetch before a tick that has
                      \* already got its price
  revoked,            \* history, per object: clients still in its map whose
                      \* unsubscribe for its pair has returned since they subscribed
  probe,              \* history, per object: how far its fetched prices follow
                      \* Script, and the updates it emitted on the way
  out,                \* what the last step emitted (socket.emit / tick outcome)
  now,                \* Date.now(), in milliseconds
  lastRequest,        \* RateLimiter.lastRequest
  apiCache,           \* ApiCache.cache: url -> {timestamp, ttl}
  callers,            \* per caller of makeApiRequest: where it is suspended
  lastCall,           \* history: when the latest outbound fetch started
  cachedTokens,       \* trending.ts: cachedTokens
  lastFetch,          \* trending.ts: lastFetch
  fetchInProgress,    \* trending.ts: fetchInProgress
  requests,           \* per HTTP request of the trending routes: where it is suspended
  deployed,           \* CoinSwipe: the constructor has run
  owner,              \* Ownable: owner()
  feePercentage,      \* CoinSwipe: feePercentage
  feeCollectionAddress, \* CoinSwipe: feeCollectionAddress
  balance,            \* address(this).balance
  tokenBalance        \* token.balanceOf(address(this)) of one ERC20 token

contractVars == <<deployed, owner, feePercentage, feeCollectionAddress, balance, tokenBalance>>

trendingVars == <<cachedTokens, lastFetch, fetchInProgress, requests>>

limiterVars == <<now, lastRequest, apiCache, callers, lastCall>>

serverVars == <<cstate, connectionTracker, subscriptions, heap, inflight, overtaken, revoked,
                probe>>

vars == <<cstate, connectionTracker, subscriptions, heap, inflight, overtaken, revoked, probe, out,
          now, lastRequest, apiCache, callers, lastCall,
          cachedTokens, lastFetch, fetchInProgress, requests,
          deployed, owner, feePercentage, feeCollectionAddress, balance, tokenBalance>>

(* ---- PriceSubscriptionManager ---- *)

NewSubscription(pairAddress) ==
  [pairAddress |-> pairAddress, clients |-> {}, callbacks |-> NoCallbacks,
   lastPrice |-> Null, updateInterval |-> FALSE, errorCount |-> 0]

\* `new` object: the lowest slot no reference points to
NewObj(H, pairAddress) ==
  IF pairAddress \in ObjIds /\ H[pairAddress] = Free
  THEN pairAddress
  ELSE CHOOSE o \in ObjIds : H[o] = Free /\ \A p \in ObjIds : H[p] = Free => o <= p
Live(H) == {o \in ObjIds : H[o] # Free}

startPriceUpdates(subscription) == [subscription EXCEPT !.updateInterval = TRUE]

stopPriceUpdates(subscription) == [subscription EXCEPT !.updateInterval = FALSE]

\* a subscribe that keeps the callback a client has already registered
addSubscriptionKeepsCallback(st, pairAddress, clientId, callback) ==
  LET existing == st.subscriptions[pairAddress]
      isNewSubscription == existing = NoObj
      o == IF isNewSubscription THEN NewObj(st.heap, pairAddress) ELSE existing
      subscription == IF isNewSubscription THEN NewSubscription(pairAddress) ELSE st.heap[o]
      added == IF clientId \in subscription.clients THEN subscription
               ELSE [subscription EXCEPT !.clients = @ \cup {clientId},
                                         !.callbacks[clientId] = callback]
      started == IF Cardinality(added.clients) = 1 /\ ~added.updateInterval
                 THEN startPriceUpdates(added) ELSE added
  IN [subscriptions |-> [st.subscriptions EXCEPT ![pairAddress] = o],
      heap |-> [st.heap EXCEPT ![o] = started],
      result |-> isNewSubscription]

\* st = [subscriptions, heap]; returns the new st with the call's result
addSubscription(st, pairAddress, clientId, callback) ==
  LET existing == st.subscriptions[pairAddress]
      isNewSubscription == existing = NoObj
      o == IF isNewSubscription THEN NewObj(st.heap, pairAddress) ELSE existing
      subscription == IF isNewSubscription THEN NewSubscription(pairAddress) ELSE st.heap[o]
      added == [subscription EXCEPT !.clients = @ \cup {clientId},
                                    !.callbacks[clientId] = callback]
      started == IF Cardinality(added.clients) = 1 /\ ~added.updateInterval
                 THEN startPriceUpdates(added) ELSE added
  IN [subscriptions |-> [st.subscriptions EXCEPT ![pairAddress] = o],
      heap |-> [st.heap EXCEPT ![o] = started],
      result |-> isNewSubscription]

\* a removal that stops the timer of a subscription left without subscribers
\* but keeps its entry in the map
removeSubscriptionLeavesEntry(st, pairAddress, clientId) ==
  LET o == st.subscriptions[pairAddress] IN
  IF o = NoObj
  THEN [subscriptions |-> st.subscriptions, heap |-> st.heap, result |-> FALSE,
        warned |-> TRUE]
  ELSE LET wasSubscribed == clientId \in st.heap[o].clients
           removed == [st.heap[o] EXCEPT !.clients = @ \ {clientId},
                                         !.callbacks[clientId] = NoCallback] IN
       IF Cardinality(removed.clients) = 0
       THEN [subscriptions |-> st.subscriptions,
             heap |-> [st.heap EXCEPT ![o] = stopPriceUpdates(removed)],
             result |-> FALSE, warned |-> ~wasSubscribed]
       ELSE [subscriptions |-> st.subscriptions,
             heap |-> [st.heap EXCEPT ![o] = removed],
             result |-> TRUE, warned |-> ~wasSubscribed]

\* a removal that answers false whenever the client was not subscribed
removeSubscriptionFalseIfAbsent(st, pairAddress, clientId) ==
  LET o == st.subscriptions[pairAddress] IN
  IF o = NoObj
  THEN [subscriptions |-> st.subscriptions, heap |-> st.heap, result |-> FALSE,
        warned |-> TRUE]
  ELSE LET wasSubscribed == clientId \in st.heap[o].clients
           removed == [st.heap[o] EXCEPT !.clients = @ \ {clientId},
                                         !.callbacks[clientId] = NoCallback] IN
       IF Cardinality(removed.clients) = 0
       THEN [subscriptions |-> [st.subscriptions EXCEPT ![pairAddress] = NoObj],
             heap |-> [st.heap EXCEPT ![o] = stopPriceUpdates(removed)],
             result |-> FALSE, warned |-> ~wasSubscribed]
       ELSE [subscriptions |-> st.subscriptions,
             heap |-> [st.heap EXCEPT ![o] = removed],
             result |-> wasSubscribed, warned |-> ~wasSubscribed]

\* a removal that answers whether the client was subscribed
removeSubscriptionReportsBefore(st, pairAddress, clientId) ==
  LET o == st.subscriptions[pairAddress] IN
  IF o = NoObj
  THEN [subscriptions |-> st.subscriptions, heap |-> st.heap, result |-> FALSE,
        warned |-> TRUE]
  ELSE LET wasSubscribed == clientId \in st.heap[o].clients
           removed == [st.heap[o] EXCEPT !.clients = @ \ {clientId},
                                         !.callbacks[clientId] = NoCallback] IN
       IF Cardinality(removed.clients) = 0
       THEN [subscriptions |-> [st.subscriptions EXCEPT ![pairAddress] = NoObj],
             heap |-> [st.heap EXCEPT ![o] = stopPriceUpdates(removed)],
             result |-> wasSubscribed, warned |-> ~wasSubscribed]
       ELSE [subscriptions |-> st.subscriptions,
             heap |-> [st.heap EXCEPT ![o] = removed],
             result |-> TRUE, warned |-> ~wasSubscribed]

\* result: other subscribers remain; warned: logger.warn was called (no such
\* subscription, or the client was not subscribed)
removeSubscription(st, pairAddress, clientId) ==
  LET o == st.subscriptions[pairAddress] IN
  IF o = NoObj
  THEN [subscriptions |-> st.subscriptions, heap |-> st.heap, result |-> FALSE,
        warned |-> TRUE]
  ELSE LET wasSubscribed == clientId \in st.heap[o].clients
           removed == [st.heap[o] EXCEPT !.clients = @ \ {clientId},
                                         !.callbacks[clientId] = NoCallback] IN
       IF Cardinality(removed.clients) = 0
       THEN [subscriptions |-> [st.subscriptions EXCEPT ![pairAddress] = NoObj],
             heap |-> [st.heap EXCEPT ![o] = stopPriceUpdates(removed)],
             result |-> FALSE, warned |-> ~wasSubscribed]
       ELSE [subscriptions |-> st.subscriptions,
             heap |-> [st.heap EXCEPT ![o] = removed],
             result |-> TRUE, warned |-> ~wasSubscribed]

\* An object nothing refers to any more (not in the map, no timer closure, no
\* pending tick closure) is garbage; its slot is reused.
Collect(S, H, F) ==
  [o \in ObjIds |->
     IF H[o] # Free /\ ~H[o].updateInterval /\ F[o] = 0 /\ S[H[o].pairAddress] # o
     THEN Free ELSE H[o]]

\* The fetched prices of the change-only emission scenario: "1.00", "1.00",
\* "1.00", "1.05".
Script == <<2, 2, 2, 3>>
ProbeStart == [pos |-> 0, emits |-> 0]
ProbeOff == [pos |-> -1, emits |-> 0]

\* the history after a fetch: a failed fetch fetches no price
Observed(pr, priceData, emitted) ==
  IF priceData = Null THEN pr
  ELSE IF pr.pos >= 0 /\ pr.pos < Len(Script) /\ priceData = Script[pr.pos + 1]
  THEN [pos |-> pr.pos + 1, emits |-> pr.emits + (IF emitted THEN 1 ELSE 0)]
  ELSE ProbeOff

\* a collected object has no history
Followed(P, H) == [o \in ObjIds |-> IF H[o] = Free THEN ProbeStart ELSE P[o]]

\* the history is kept only for callbacks an object still holds
Kept(R, H) == [o \in ObjIds |-> R[o] \cap H[o].clients]

\* cleanup(): the timer of every subscription in the map is stopped and the
\* map is cleared
cleanup ==
  LET stopped == [o \in ObjIds |->
                    IF heap[o] # Free /\ subscriptions[heap[o].pairAddress] = o
                    THEN stopPriceUpdates(heap[o]) ELSE heap[o]]
      cleared == [k \in IdStrings |-> NoObj]
  IN /\ subscriptions' = cleared
     /\ heap' = Collect(cleared, stopped, inflight)
     /\ revoked' = Kept(revoked, heap')
     /\ probe' = Followed(probe, heap')
     /\ out' = [kind |-> "cleanup"]
     /\ UNCHANGED <<cstate, connectionTracker, inflight>>
     /\ UNCHANGED overtaken
     /\ UNCHANGED limiterVars
     /\ UNCHANGED trendingVars
     /\ UNCHANGED contractVars

(* ---- fetch-and-diff cycle: the setInterval callback ---- *)

\* a classification that compares the price strings, not their numeric values
ChangeOfText(lastPrice, currentPrice) ==
  IF lastPrice # Null /\ currentPrice # Null
  THEN IF currentPrice > lastPrice THEN "increase"
       ELSE IF currentPrice < lastPrice THEN "decrease"
       ELSE "unchanged"
  ELSE "unchanged"

ChangeOf(lastPrice, currentPrice) ==
  IF lastPrice # Null /\ currentPrice # Null
  THEN IF parseFloat(currentPrice) > parseFloat(lastPrice) THEN "increase"
       ELSE IF parseFloat(currentPrice) < parseFloat(lastPrice) THEN "decrease"
       ELSE "unchanged"
  ELSE "unchanged"

\* an emission on every successful fetch
ShouldEmitAlways(lastPrice, currentPrice) == TRUE

ShouldEmit(lastPrice, currentPrice) ==
  LET hasChanged == lastPrice # currentPrice IN hasChanged \/ lastPrice = Null

\* the error count that stops the updates
ThresholdReached(errorCount) == errorCount >= MAX_ERROR_COUNT

\* the interval fires: the callback runs up to `await fetchTokenPrice(...)`
TimerFire(o) ==
  /\ heap[o].updateInterval
  /\ inflight[o] < MaxInflight
  /\ inflight' = [inflight EXCEPT ![o] = @ + 1]
  /\ out' = Quiet
  /\ UNCHANGED <<cstate, connectionTracker, subscriptions, heap, revoked, probe>>
  /\ UNCHANGED overtaken
  /\ UNCHANGED limiterVars
  /\ UNCHANGED trendingVars
  /\ UNCHANGED contractVars

\* (variant: a failed fetch also forgets the last price)
TickFailedForgetsPrice(o) ==
  LET counted == [heap[o] EXCEPT !.errorCount = @ + 1, !.lastPrice = Null]
      stop == ThresholdReached(counted.errorCount)
      after == IF stop THEN stopPriceUpdates(counted) ELSE counted
      S == IF stop THEN [subscriptions EXCEPT ![counted.pairAddress] = NoObj]
           ELSE subscriptions
      F == [inflight EXCEPT ![o] = @ - 1]
  IN /\ subscriptions' = S
     /\ inflight' = F
     /\ heap' = Collect(S, [heap EXCEPT ![o] = after], F)
     /\ out' = [kind |-> "tick", obj |-> o, priceUsd |-> Null, emitted |-> FALSE,
                change |-> "none", notified |-> {}, threw |-> {}, via |-> NoCallbacks,
                lastPriceSeen |-> Null]

\* fetchTokenPrice returned null (it catches every upstream error itself)
TickFailed(o) ==
  LET counted == [heap[o] EXCEPT !.errorCount = @ + 1]
      stop == ThresholdReached(counted.errorCount)
      after == IF stop THEN stopPriceUpdates(counted) ELSE counted
      S == IF stop THEN [subscriptions EXCEPT ![counted.pairAddress] = NoObj]
           ELSE subscriptions
      F == [inflight EXCEPT ![o] = @ - 1]
  IN /\ subscriptions' = S
     /\ inflight' = F
     /\ heap' = Collect(S, [heap EXCEPT ![o] = after], F)
     /\ out' = [kind |-> "tick", obj |-> o, priceUsd |-> Null, emitted |-> FALSE,
                change |-> "none", notified |-> {}, threw |-> {}, via |-> NoCallbacks,
                lastPriceSeen |-> Null]

\* a fan-out that a throwing callback aborts: nobody is notified
TickPricedAborts(o, currentPrice, throwers) ==
  LET reset == [heap[o] EXCEPT !.errorCount = 0]
      emit == ShouldEmit(reset.lastPrice, currentPrice)
      change == ChangeOf(reset.lastPrice, currentPrice)
      after == IF emit
               THEN [reset EXCEPT !.clients = @ \ throwers,
                                  !.callbacks = [c \in AllClients |->
                                                   IF c \in throwers THEN NoCallback ELSE @[c]],
                                  !.lastPrice = currentPrice]
               ELSE reset
      F == [inflight EXCEPT ![o] = @ - 1]
      reached == IF throwers = {} THEN reset.clients ELSE {}
  IN /\ throwers \subseteq reset.clients
     /\ emit \/ throwers = {}
     /\ subscriptions' = subscriptions
     /\ inflight' = F
     /\ heap' = Collect(subscriptions, [heap EXCEPT ![o] = after], F)
     /\ out' = [kind |-> "tick", obj |-> o, priceUsd |-> currentPrice, emitted |-> emit,
                change |-> IF emit THEN change ELSE "none",
                notified |-> IF emit THEN reached ELSE {},
                threw |-> throwers,
                via |-> IF emit
                        THEN [c \in AllClients |->
                                IF c \in reached THEN reset.callbacks[c] ELSE NoCallback]
                        ELSE NoCallbacks,
                lastPriceSeen |-> IF emit THEN reset.lastPrice ELSE Null]

\* The subscription as a callback invoked by clients.forEach finds it (through
\* getSubscriptionStats, say): `subscription.lastPrice = currentPrice` runs
\* after the forEach, so lastPrice is still the previous price.
DuringFanOut(subscription, currentPrice) == subscription

\* fetchTokenPrice returned a price; the callbacks in `throwers` throw
TickPriced(o, currentPrice, throwers) ==
  LET reset == [heap[o] EXCEPT !.errorCount = 0]
      emit == ShouldEmit(reset.lastPrice, currentPrice)
      change == ChangeOf(reset.lastPrice, currentPrice)
      after == IF emit
               THEN [reset EXCEPT !.clients = @ \ throwers,
                                  !.callbacks = [c \in AllClients |->
                                                   IF c \in throwers THEN NoCallback ELSE @[c]],
                                  !.lastPrice = currentPrice]
               ELSE reset
      F == [inflight EXCEPT ![o] = @ - 1]
  IN /\ throwers \subseteq reset.clients
     /\ emit \/ throwers = {}
     /\ subscriptions' = subscriptions
     /\ inflight' = F
     /\ heap' = Collect(subscriptions, [heap EXCEPT ![o] = after], F)
     /\ out' = [kind |-> "tick", obj |-> o, priceUsd |-> currentPrice, emitted |-> emit,
                change |-> IF emit THEN change ELSE "none",
                notified |-> IF emit THEN reset.clients \ throwers ELSE {},
                threw |-> throwers,
                via |-> IF emit
                        THEN [c \in AllClients |->
                                IF c \in throwers THEN NoCallback ELSE reset.callbacks[c]]
                        ELSE NoCallbacks,
                lastPriceSeen |-> IF emit THEN DuringFanOut(reset, currentPrice).lastPrice
                                  ELSE Null]

\* the pending ticks that are overtaken once the i-th oldest has settled
Settled(ov, i, priceData) ==
  IF i <= ov THEN ov - 1
  ELSE IF priceData # Null THEN i - 1
  ELSE ov

\* The awaited fetch of the i-th oldest pending tick settles and the rest of
\* the interval callback runs.  The pending fetches are independent HTTP
\* requests: they settle in any order.
FetchSettles(o, i, priceData, throwers) ==
  /\ i \in 1..inflight[o]
  /\ IF priceData = Null THEN throwers = {} /\ TickFailed(o)
     ELSE TickPriced(o, priceData, throwers)
  /\ overtaken' = [overtaken EXCEPT ![o] = Settled(@, i, priceData)]
  /\ revoked' = Kept(revoked, heap')
  /\ probe' = Followed([probe EXCEPT ![o] = Observed(@, priceData, out'.emitted)], heap')
  /\ UNCHANGED <<cstate, connectionTracker>>
  /\ UNCHANGED limiterVars
  /\ UNCHANGED trendingVars
  /\ UNCHANGED contractVars

\* the fetches settle in the order they were started (which of the pending
\* fetches settles makes no difference to the subscription)
FetchDone(o, priceData, throwers) == FetchSettles(o, 1, priceData, throwers)

(* ---- fetchTokenPrice ---- *)

\* What makeApiRequest hands to fetchTokenPrice: a body without a pairs array
\* (or an empty one, or a thrown error), or a body whose first pair has a
\* pairAddress, a priceUsd (Null: missing) and the other required fields of
\* isValidPair (complete) or not.
NoPairs == [found |-> FALSE, pairAddress |-> 0, priceUsd |-> Null, complete |-> FALSE]
RecordAddresses == Ids \cup {NumIds + 1} \cup {0}
Responses ==
  {NoPairs} \cup
  { [found |-> TRUE, pairAddress |-> a, priceUsd |-> p, complete |-> b] :
      a \in RecordAddresses, p \in CorePrices \cup {Null}, b \in BOOLEAN }

isValidPair(pair) ==
  /\ pair.complete
  /\ pair.priceUsd # Null
  /\ validatePairAddress(pair.pairAddress)

\* the priceUsd of the PriceUpdate fetchTokenPrice returns, Null when it
\* returns null
fetchTokenPrice(pairAddress, response) ==
  IF ~response.found THEN Null
  ELSE IF response.priceUsd = Null \/ ~isValidPair(response) THEN Null
  ELSE response.priceUsd

\* a tick whose fetch has been answered with a response
FetchAnswered(o, response) ==
  FetchDone(o, fetchTokenPrice(heap[o].pairAddress, response), {})

(* ---- the upstream client: ApiCache, RateLimiter, makeApiRequest ---- *)

\* ApiCache.get: the entry is served unless it is missing or older than its ttl;
\* an expired entry is deleted
CacheGet(cache, key, t) ==
  LET cached == cache[key]
      isExpired == t - cached.timestamp > cached.ttl
  IN IF ~cached.present THEN [found |-> FALSE, data |-> "falsy", cache |-> cache]
     ELSE IF isExpired
          THEN [found |-> FALSE, data |-> "falsy", cache |-> [cache EXCEPT ![key] = NoEntry]]
     ELSE [found |-> TRUE, data |-> cached.data, cache |-> cache]

\* ApiCache.set
CacheSet(cache, key, data, ttlMs, t) ==
  [cache EXCEPT ![key] = [present |-> TRUE, data |-> data, timestamp |-> t, ttl |-> ttlMs]]

\* the fetch of makeApiRequest starts: the outbound call
StartFetch(c, request) ==
  /\ callers' = [callers EXCEPT ![c] = [request EXCEPT !.pc = "fetching"]]
  /\ lastCall' = now
  /\ out' = [kind |-> "request", caller |-> c, url |-> request.url, at |-> now,
             previous |-> lastCall]

\* RateLimiter.throttle up to its first suspension: a caller that is early
\* sleeps for the rest of the delay and writes lastRequest when it wakes; one
\* that is not writes it at once, and its fetch starts
throttle(c, request) ==
  LET timeSinceLastRequest == now - lastRequest
      waitTime == RATE_LIMIT_DELAY - timeSinceLastRequest
  IN IF timeSinceLastRequest < RATE_LIMIT_DELAY
     THEN /\ callers' = [callers EXCEPT ![c] = [request EXCEPT !.pc = "waiting",
                                                              !.wake = now + waitTime]]
          /\ out' = [kind |-> "waiting", caller |-> c, url |-> request.url]
          /\ UNCHANGED <<lastRequest, lastCall>>
     ELSE /\ lastRequest' = now
          /\ StartFetch(c, request)

\* makeApiRequest(url, cacheTtl) up to its first suspension
Request(c, url, cacheTtl) ==
  LET got == CacheGet(apiCache, url, now)
      request == [pc |-> "idle", url |-> url, cacheTtl |-> cacheTtl, wake |-> 0]
  IN /\ callers[c].pc = "idle"
     /\ IF cacheTtl > 0 /\ Truthy(got.data)
        THEN /\ out' = [kind |-> "cached", caller |-> c, url |-> url, data |-> got.data]
             /\ UNCHANGED <<apiCache, lastRequest, callers, lastCall>>
        ELSE /\ apiCache' = (IF cacheTtl > 0 THEN got.cache ELSE apiCache)
             /\ throttle(c, request)
     /\ UNCHANGED now
     /\ UNCHANGED serverVars
     /\ UNCHANGED trendingVars
     /\ UNCHANGED contractVars

\* the setTimeout of throttle fires: lastRequest is written and the fetch starts
TimeoutFires(c) ==
  /\ callers[c].pc = "waiting"
  /\ now >= callers[c].wake
  /\ lastRequest' = now
  /\ StartFetch(c, callers[c])
  /\ UNCHANGED <<now, apiCache>>
  /\ UNCHANGED serverVars
  /\ UNCHANGED trendingVars
  /\ UNCHANGED contractVars

\* the fetch settles: a successful response is cached, a failure is rethrown
Response(c, ok, data) ==
  /\ callers[c].pc = "fetching"
  /\ apiCache' = (IF ok /\ callers[c].cacheTtl > 0
                  THEN CacheSet(apiCache, callers[c].url, data, callers[c].cacheTtl, now)
                  ELSE apiCache)
  /\ callers' = [callers EXCEPT ![c] = Idle]
  /\ out' = [kind |-> (IF ok THEN "response" ELSE "failed"), caller |-> c]
  /\ UNCHANGED <<now, lastRequest, lastCall>>
  /\ UNCHANGED serverVars
  /\ UNCHANGED trendingVars
  /\ UNCHANGED contractVars

\* time passes
Advance ==
  /\ now + TimeStep <= MaxNow
  /\ now' = now + TimeStep
  /\ out' = Quiet
  /\ UNCHANGED <<lastRequest, apiCache, callers, lastCall>>
  /\ UNCHANGED serverVars
  /\ UNCHANGED trendingVars
  /\ UNCHANGED contractVars

(* ---- the trending routes ---- *)

\* fetchTrendingTokens: every makeApiRequest sits in its own try/catch, so a
\* failed request adds no tokens and the function returns what the others
\* gave: [] when the provider is down.  It never rejects.
fetchTrendingTokens(upstream) ==
  [threw |-> FALSE, tokens |-> IF upstream.ok THEN upstream.tokens ELSE <<>>]

\* tokens.slice(0, limit)
slice(tokens, limit) == SubSeq(tokens, 1, IF limit < Len(tokens) THEN limit ELSE Len(tokens))

\* res.json(response) of GET /trending, with what the request did on the way
TrendingResponse(r, limit, cacheHit, fetched, upstreamOk, tokens, lastUpdate, forceRefresh) ==
  [kind |-> "trending", requester |-> r, status |-> 200, tokens |-> slice(tokens, limit),
   cacheHit |-> cacheHit, fetched |-> fetched, upstreamOk |-> upstreamOk,
   lastUpdate |-> lastUpdate, forceRefresh |-> forceRefresh]

\* a GET that never looks at the age of the cache
GetRequestIgnoresAge(r, limit, forceRefresh) ==
  LET cacheAge == now - lastFetch
      shouldRefresh == forceRefresh \/ Len(cachedTokens) = 0
  IN /\ requests[r].pc = "idle"
     /\ IF shouldRefresh /\ ~fetchInProgress
        THEN /\ fetchInProgress' = TRUE
             /\ requests' = [requests EXCEPT ![r] =
                   [pc |-> "fetching", route |-> "get", now |-> now, cacheAge |-> cacheAge,
                    limit |-> limit, forceRefresh |-> forceRefresh]]
             /\ out' = [kind |-> "fetch", requester |-> r, route |-> "get",
                        forceRefresh |-> forceRefresh]
        ELSE /\ out' = TrendingResponse(r, limit, TRUE, FALSE, FALSE, cachedTokens,
                                        lastFetch, forceRefresh)
             /\ UNCHANGED <<fetchInProgress, requests>>
     /\ UNCHANGED <<cachedTokens, lastFetch>>
     /\ UNCHANGED <<serverVars, limiterVars>>
     /\ UNCHANGED contractVars

\* a GET that refreshes whenever shouldRefresh says so, a fetch in flight or not
GetRequestIgnoresFlag(r, limit, forceRefresh) ==
  LET cacheAge == now - lastFetch
      shouldRefresh == forceRefresh \/ Len(cachedTokens) = 0 \/ cacheAge > CACHE_DURATION
  IN /\ requests[r].pc = "idle"
     /\ IF shouldRefresh
        THEN /\ fetchInProgress' = TRUE
             /\ requests' = [requests EXCEPT ![r] =
                   [pc |-> "fetching", route |-> "get", now |-> now, cacheAge |-> cacheAge,
                    limit |-> limit, forceRefresh |-> forceRefresh]]
             /\ out' = [kind |-> "fetch", requester |-> r, route |-> "get",
                        forceRefresh |-> forceRefresh]
        ELSE /\ out' = TrendingResponse(r, limit, TRUE, FALSE, FALSE, cachedTokens,
                                        lastFetch, forceRefresh)
             /\ UNCHANGED <<fetchInProgress, requests>>
     /\ UNCHANGED <<cachedTokens, lastFetch>>
     /\ UNCHANGED <<serverVars, limiterVars>>
     /\ UNCHANGED contractVars

\* GET /trending up to its first suspension: the fetch starts, or the cache is
\* served as it is
GetRequest(r, limit, forceRefresh) ==
  LET cacheAge == now - lastFetch
      shouldRefresh == forceRefresh \/ Len(cachedTokens) = 0 \/ cacheAge > CACHE_DURATION
  IN /\ requests[r].pc = "idle"
     /\ IF shouldRefresh /\ ~fetchInProgress
        THEN /\ fetchInProgress' = TRUE
             /\ requests' = [requests EXCEPT ![r] =
                   [pc |-> "fetching", route |-> "get", now |-> now, cacheAge |-> cacheAge,
                    limit |-> limit, forceRefresh |-> forceRefresh]]
             /\ out' = [kind |-> "fetch", requester |-> r, route |-> "get",
                        forceRefresh |-> forceRefresh]
        ELSE /\ out' = TrendingResponse(r, limit, TRUE, FALSE, FALSE, cachedTokens,
                                        lastFetch, forceRefresh)
             /\ UNCHANGED <<fetchInProgress, requests>>
     /\ UNCHANGED <<cachedTokens, lastFetch>>
     /\ UNCHANGED <<serverVars, limiterVars>>
     /\ UNCHANGED contractVars

\* (variant: a GET whose fetch got nothing from the provider leaves the flag set)
GetFetchDoneKeepsFlag(r, upstream) ==
  LET result == fetchTrendingTokens(upstream)
      req == requests[r]
  IN /\ req.pc = "fetching" /\ req.route = "get"
     /\ fetchInProgress' = ~upstream.ok
     /\ requests' = [requests EXCEPT ![r] = NoRequest]
     /\ IF ~result.threw
        THEN /\ cachedTokens' = result.tokens
             /\ lastFetch' = req.now
             /\ out' = TrendingResponse(r, req.limit, FALSE, TRUE, upstream.ok,
                                        result.tokens, req.now, req.forceRefresh)
        ELSE /\ UNCHANGED <<cachedTokens, lastFetch>>
             /\ out' = IF Len(cachedTokens) = 0
                       THEN [kind |-> "trending", requester |-> r, status |-> 500,
                             message |-> "No trending tokens available", cacheHit |-> FALSE,
                             fetched |-> TRUE, upstreamOk |-> upstream.ok,
                             lastUpdate |-> lastFetch, forceRefresh |-> req.forceRefresh]
                       ELSE TrendingResponse(r, req.limit, FALSE, TRUE, upstream.ok,
                                             cachedTokens, lastFetch, req.forceRefresh)
     /\ UNCHANGED <<serverVars, limiterVars>>
     /\ UNCHANGED contractVars

\* GET /trending after await fetchTrendingTokens(): the cache is replaced, or
\* on a rejection the old cache is served, or a 500 sent when it is empty
GetFetchDone(r, upstream) ==
  LET result == fetchTrendingTokens(upstream)
      req == requests[r]
  IN /\ req.pc = "fetching" /\ req.route = "get"
     /\ fetchInProgress' = FALSE
     /\ requests' = [requests EXCEPT ![r] = NoRequest]
     /\ IF ~result.threw
        THEN /\ cachedTokens' = result.tokens
             /\ lastFetch' = req.now
             /\ out' = TrendingResponse(r, req.limit, FALSE, TRUE, upstream.ok,
                                        result.tokens, req.now, req.forceRefresh)
        ELSE /\ UNCHANGED <<cachedTokens, lastFetch>>
             /\ out' = IF Len(cachedTokens) = 0
                       THEN [kind |-> "trending", requester |-> r, status |-> 500,
                             message |-> "No trending tokens available", cacheHit |-> FALSE,
                             fetched |-> TRUE, upstreamOk |-> upstream.ok,
                             lastUpdate |-> lastFetch, forceRefresh |-> req.forceRefresh]
                       ELSE TrendingResponse(r, req.limit, FALSE, TRUE, upstream.ok,
                                             cachedTokens, lastFetch, req.forceRefresh)
     /\ UNCHANGED <<serverVars, limiterVars>>
     /\ UNCHANGED contractVars

\* POST /trending/refresh up to its first suspension
RefreshRequest(r) ==
  /\ requests[r].pc = "idle"
  /\ IF fetchInProgress
     THEN /\ out' = [kind |-> "refresh", requester |-> r, status |-> 429]
          /\ UNCHANGED <<fetchInProgress, requests>>
     ELSE /\ fetchInProgress' = TRUE
          /\ requests' = [requests EXCEPT ![r] =
                [NoRequest EXCEPT !.pc = "fetching", !.route = "post", !.now = now]]
          /\ out' = [kind |-> "fetch", requester |-> r, route |-> "post",
                     forceRefresh |-> TRUE]
  /\ UNCHANGED <<cachedTokens, lastFetch>>
  /\ UNCHANGED <<serverVars, limiterVars>>
  /\ UNCHANGED contractVars

\* POST /trending/refresh after await fetchTrendingTokens()
RefreshFetchDone(r, upstream) ==
  LET result == fetchTrendingTokens(upstream)
  IN /\ requests[r].pc = "fetching" /\ requests[r].route = "post"
     /\ fetchInProgress' = FALSE
     /\ requests' = [requests EXCEPT ![r] = NoRequest]
     /\ IF ~result.threw
        THEN /\ cachedTokens' = result.tokens
             /\ lastFetch' = now
             /\ out' = [kind |-> "refresh", requester |-> r, status |-> 200]
        ELSE /\ UNCHANGED <<cachedTokens, lastFetch>>
             /\ out' = [kind |-> "refresh", requester |-> r, status |-> 500]
     /\ UNCHANGED <<serverVars, limiterVars>>
     /\ UNCHANGED contractVars

\* half the cache duration passes
AdvanceFar ==
  /\ now + CACHE_DURATION \div 2 <= RATE_LIMIT_DELAY + MaxFarSteps * (CACHE_DURATION \div 2)
  /\ now' = now + CACHE_DURATION \div 2
  /\ out' = Quiet
  /\ UNCHANGED <<lastRequest, apiCache, callers, lastCall>>
  /\ UNCHANGED <<serverVars, trendingVars>>
  /\ UNCHANGED contractVars

(* ---- the CoinSwipe contract ---- *)

\* a reverted call: every state change of the transaction is rolled back
Revert(call, reason) ==
  /\ out' = call @@ [reverted |-> TRUE, reason |-> reason]
  /\ UNCHANGED contractVars

\* constructor(_initialFeePercentage, _feeCollectionAddress), Ownable(msg.sender)
Deploy(sender, _initialFeePercentage, _feeCollectionAddress) ==
  LET call == [kind |-> "call", fn |-> "constructor", sender |-> sender,
               arg |-> _initialFeePercentage, address |-> _feeCollectionAddress]
  IN /\ ~deployed
     /\ IF ~(_initialFeePercentage <= MAX_FEE)
        THEN Revert(call, "Fee percentage too high")
        ELSE IF ~(_feeCollectionAddress # ZeroAddress)
        THEN Revert(call, "Invalid fee address")
        ELSE /\ deployed' = TRUE
             /\ owner' = sender
             /\ feePercentage' = _initialFeePercentage
             /\ feeCollectionAddress' = _feeCollectionAddress
             /\ out' = call @@ [reverted |-> FALSE, reason |-> ""]
             /\ UNCHANGED <<balance, tokenBalance>>
     /\ UNCHANGED <<serverVars, limiterVars, trendingVars>>

\* a setFeePercentage without its require
setFeePercentageUnchecked(sender, _newFeePercentage) ==
  LET call == [kind |-> "call", fn |-> "setFeePercentage", sender |-> sender,
               arg |-> _newFeePercentage]
  IN /\ deployed
     /\ IF sender # owner
        THEN Revert(call, "OwnableUnauthorizedAccount")
        ELSE IF FALSE
        THEN Revert(call, "Fee percentage too high")
        ELSE /\ feePercentage' = _newFeePercentage
             /\ out' = call @@ [reverted |-> FALSE, reason |-> ""]
             /\ UNCHANGED <<deployed, owner, feeCollectionAddress, balance, tokenBalance>>
     /\ UNCHANGED <<serverVars, limiterVars, trendingVars>>

setFeePercentage(sender, _newFeePercentage) ==
  LET call == [kind |-> "call", fn |-> "setFeePercentage", sender |-> sender,
               arg |-> _newFeePercentage]
  IN /\ deployed
     /\ IF sender # owner
        THEN Revert(call, "OwnableUnauthorizedAccount")
        ELSE IF ~(_newFeePercentage <= MAX_FEE)
        THEN Revert(call, "Fee percentage too high")
        ELSE /\ feePercentage' = _newFeePercentage
             /\ out' = call @@ [reverted |-> FALSE, reason |-> ""]
             /\ UNCHANGED <<deployed, owner, feeCollectionAddress, balance, tokenBalance>>
     /\ UNCHANGED <<serverVars, limiterVars, trendingVars>>

setFeeCollectionAddress(sender, _newFeeCollectionAddress) ==
  LET call == [kind |-> "call", fn |-> "setFeeCollectionAddress", sender |-> sender,
               arg |-> _newFeeCollectionAddress]
  IN /\ deployed
     /\ IF sender # owner
        THEN Revert(call, "OwnableUnauthorizedAccount")
        ELSE IF ~(_newFeeCollectionAddress # ZeroAddress)
        THEN Revert(call, "Invalid fee address")
        ELSE /\ feeCollectionAddress' = _newFeeCollectionAddress
             /\ out' = call @@ [reverted |-> FALSE, reason |-> ""]
             /\ UNCHANGED <<deployed, owner, feePercentage, balance, tokenBalance>>
     /\ UNCHANGED <<serverVars, limiterVars, trendingVars>>

\* an emergencyWithdraw without onlyOwner
emergencyWithdrawByAnyone(sender, _token, _amount, accepts, outcome) ==
  LET call == [kind |-> "call", fn |-> "emergencyWithdraw", sender |-> sender,
               arg |-> _amount]
  IN /\ deployed
     /\ IF FALSE
        THEN Revert(call, "OwnableUnauthorizedAccount")
        ELSE IF _token = EthToken
        THEN IF ~(balance >= _amount) THEN Revert(call, "Insufficient contract balance")
             ELSE IF ~accepts THEN Revert(call, "transfer failed")
             ELSE /\ balance' = balance - _amount
                  /\ out' = call @@ [reverted |-> FALSE, reason |-> ""]
                  /\ UNCHANGED <<deployed, owner, feePercentage, feeCollectionAddress,
                                 tokenBalance>>
        ELSE IF ~(tokenBalance >= _amount) THEN Revert(call, "Insufficient token balance")
             ELSE IF outcome = "reverts" THEN Revert(call, "token reverted")
             ELSE /\ tokenBalance' = (IF outcome = "transfers" THEN tokenBalance - _amount
                                      ELSE tokenBalance)
                  /\ out' = call @@ [reverted |-> FALSE, reason |-> ""]
                  /\ UNCHANGED <<deployed, owner, feePercentage, feeCollectionAddress,
                                 balance>>
     /\ UNCHANGED <<serverVars, limiterVars, trendingVars>>

\* emergencyWithdraw(_token, _amount).  accepts: msg.sender takes the ETH
\* (an owner that is a contract may refuse it); outcome: what the token's
\* transfer does, its return value is not read
emergencyWithdraw(sender, _token, _amount, accepts, outcome) ==
  LET call == [kind |-> "call", fn |-> "emergencyWithdraw", sender |-> sender,
               arg |-> _amount]
  IN /\ deployed
     /\ IF sender # owner
        THEN Revert(call, "OwnableUnauthorizedAccount")
        ELSE IF _token = EthToken
        THEN IF ~(balance >= _amount) THEN Revert(call, "Insufficient contract balance")
             ELSE IF ~accepts THEN Revert(call, "transfer failed")
             ELSE /\ balance' = balance - _amount
                  /\ out' = call @@ [reverted |-> FALSE, reason |-> ""]
                  /\ UNCHANGED <<deployed, owner, feePercentage, feeCollectionAddress,
                                 tokenBalance>>
        ELSE IF ~(tokenBalance >= _amount) THEN Revert(call, "Insufficient token balance")
             ELSE IF outcome = "reverts" THEN Revert(call, "token reverted")
             ELSE /\ tokenBalance' = (IF outcome = "transfers" THEN tokenBalance - _amount
                                      ELSE tokenBalance)
                  /\ out' = call @@ [reverted |-> FALSE, reason |-> ""]
                  /\ UNCHANGED <<deployed, owner, feePercentage, feeCollectionAddress,
                                 balance>>
     /\ UNCHANGED <<serverVars, limiterVars, trendingVars>>

\* receive(): anyone may send ETH to the contract
Receive(sender, value) ==
  /\ deployed
  /\ value > 0
  /\ balance + value <= MaxBalance
  /\ balance' = balance + value
  /\ out' = [kind |-> "call", fn |-> "receive", sender |-> sender, arg |-> value,
             reverted |-> FALSE, reason |-> ""]
  /\ UNCHANGED <<deployed, owner, feePercentage, feeCollectionAddress, tokenBalance>>
  /\ UNCHANGED <<serverVars, limiterVars, trendingVars>>

\* someone transfers tokens to the contract's address
TokenReceived(sender, value) ==
  /\ deployed
  /\ value > 0
  /\ tokenBalance + value <= MaxBalance
  /\ tokenBalance' = tokenBalance + value
  /\ out' = [kind |-> "transfer", sender |-> sender, arg |-> value]
  /\ UNCHANGED <<deployed, owner, feePercentage, feeCollectionAddress, balance>>
  /\ UNCHANGED <<serverVars, limiterVars, trendingVars>>

\* swapEthToToken(_token, _minTokens, _dex) with msg.value = value: the fee
\* goes to feeCollectionAddress and the rest to the router, so the ETH passes
\* through the contract.  delivered: both transfers went through
swapEthToToken(sender, _token, value, delivered) ==
  LET call == [kind |-> "call", fn |-> "swapEthToToken", sender |-> sender, arg |-> value]
      fee == (value * feePercentage) \div MAX_FEE
      amountToSwap == value - fee
  IN /\ deployed
     /\ IF ~(value > 0) THEN Revert(call, "ETH required for swap")
        ELSE IF ~(_token # WETH) THEN Revert(call, "Cannot swap ETH to WETH directly")
        ELSE IF ~delivered THEN Revert(call, "transfer failed")
        ELSE /\ out' = call @@ [reverted |-> FALSE, reason |-> "", fee |-> fee,
                                 swapped |-> amountToSwap]
             /\ UNCHANGED contractVars
     /\ UNCHANGED <<serverVars, limiterVars, trendingVars>>

\* swapTokenToEth(_token, _tokenAmount, _minETH, _dex): the tokens are pulled
\* from the sender, the fee goes to feeCollectionAddress and the router takes
\* the rest
swapTokenToEth(sender, _token, _tokenAmount, delivered) ==
  LET call == [kind |-> "call", fn |-> "swapTokenToEth", sender |-> sender,
               arg |-> _tokenAmount]
      fee == (_tokenAmount * feePercentage) \div MAX_FEE
      amountToSwap == _tokenAmount - fee
  IN /\ deployed
     /\ IF ~(_tokenAmount > 0) THEN Revert(call, "Token amount required")
        ELSE IF ~(_token # WETH) THEN Revert(call, "Cannot swap WETH to WETH")
        ELSE IF ~delivered THEN Revert(call, "transfer failed")
        ELSE /\ out' = call @@ [reverted |-> FALSE, reason |-> "", fee |-> fee,
                                 swapped |-> amountToSwap]
             /\ UNCHANGED contractVars
     /\ UNCHANGED <<serverVars, limiterVars, trendingVars>>

\* Ownable.transferOwnership(newOwner)
transferOwnership(sender, newOwner) ==
  LET call == [kind |-> "call", fn |-> "transferOwnership", sender |-> sender,
               arg |-> newOwner]
  IN /\ deployed
     /\ IF sender # owner
        THEN Revert(call, "OwnableUnauthorizedAccount")
        ELSE IF newOwner = ZeroAddress
        THEN Revert(call, "OwnableInvalidOwner")
        ELSE /\ owner' = newOwner
             /\ out' = call @@ [reverted |-> FALSE, reason |-> ""]
             /\ UNCHANGED <<deployed, feePercentage, feeCollectionAddress, balance,
                            tokenBalance>>
     /\ UNCHANGED <<serverVars, limiterVars, trendingVars>>

\* Ownable.renounceOwnership()
renounceOwnership(sender) ==
  LET call == [kind |-> "call", fn |-> "renounceOwnership", sender |-> sender,
               arg |-> ZeroAddress]
  IN /\ deployed
     /\ IF sender # owner
        THEN Revert(call, "OwnableUnauthorizedAccount")
        ELSE /\ owner' = ZeroAddress
             /\ out' = call @@ [reverted |-> FALSE, reason |-> ""]
             /\ UNCHANGED <<deployed, feePercentage, feeCollectionAddress, balance,
                            tokenBalance>>
     /\ UNCHANGED <<serverVars, limiterVars, trendingVars>>

(* ---- socket handlers ---- *)

enforceRateLimit(tracker) ==
  IF tracker.present
  THEN IF tracker.inWindow
       THEN [allowed |-> tracker.count < MaxConnectionsPerIp, tracker |-> tracker]
       ELSE [allowed |-> TRUE, tracker |-> [tracker EXCEPT !.count = 0, !.inWindow = TRUE]]
  ELSE [allowed |-> TRUE, tracker |-> tracker]

initializeClientTracking(tracker) ==
  IF tracker.present
  THEN [tracker EXCEPT !.count = @ + 1, !.inWindow = TRUE]
  ELSE [count |-> 1, inWindow |-> TRUE, subscriptions |-> {}, present |-> TRUE]

cleanupClientTracking(tracker) ==
  IF tracker.present
  THEN LET count == IF tracker.count - 1 > 0 THEN tracker.count - 1 ELSE 0 IN
       IF count = 0 THEN NoTracker ELSE [tracker EXCEPT !.count = count]
  ELSE tracker

\* io.on('connection')
Connect(c) ==
  /\ cstate[c] = "idle"
  /\ LET clientIP == ipOf(c)
         limit == enforceRateLimit(connectionTracker[clientIP])
     IN IF limit.allowed
        THEN /\ cstate' = [cstate EXCEPT ![c] = "live"]
             /\ connectionTracker' =
                  [connectionTracker EXCEPT ![clientIP] = initializeClientTracking(limit.tracker)]
             /\ out' = [kind |-> "connected", client |-> c]
        ELSE /\ cstate' = [cstate EXCEPT ![c] = "closed"]
             /\ connectionTracker' = [connectionTracker EXCEPT ![clientIP] = limit.tracker]
             /\ out' = [kind |-> "refused", client |-> c]
  /\ UNCHANGED <<subscriptions, heap, inflight, revoked, probe>>
  /\ UNCHANGED overtaken
  /\ UNCHANGED limiterVars
  /\ UNCHANGED trendingVars
  /\ UNCHANGED contractVars

\* RATE_LIMIT_WINDOW (60 s) passes without a connection from this address
WindowElapses(ip) ==
  /\ connectionTracker[ip].present
  /\ connectionTracker[ip].inWindow
  /\ connectionTracker' = [connectionTracker EXCEPT ![ip].inWindow = FALSE]
  /\ out' = Quiet
  /\ UNCHANGED <<cstate, subscriptions, heap, inflight, revoked, probe>>
  /\ UNCHANGED overtaken
  /\ UNCHANGED limiterVars
  /\ UNCHANGED trendingVars
  /\ UNCHANGED contractVars

LimitMessage == "Maximum subscriptions per client exceeded (5)"
InvalidMessage == "Invalid pair address format"

SubscriptionLimitReached(clientTracker) ==
  clientTracker.present /\ Cardinality(clientTracker.subscriptions) >= MAX_SUBSCRIPTIONS_PER_CLIENT

\* a rejection that comes after the call to the manager
SubscribeRejectedAfterForward(c, pairAddress, message) ==
  /\ out' = [kind |-> "error", client |-> c, pairAddress |-> pairAddress, message |-> message]
  /\ LET r == addSubscription([subscriptions |-> subscriptions, heap |-> heap], pairAddress, c,
                              CHOOSE callback \in SameCallback : TRUE)
     IN subscriptions' = r.subscriptions /\ heap' = r.heap
  /\ UNCHANGED <<connectionTracker, revoked, probe>>

\* socket.emit('error', ...); return
SubscribeRejected(c, pairAddress, message) ==
  /\ out' = [kind |-> "error", client |-> c, pairAddress |-> pairAddress, message |-> message]
  /\ UNCHANGED <<connectionTracker, subscriptions, heap, revoked, probe>>

\* socket.on('subscribe')
SubscribeReq(c, pairAddress, callback) ==
  /\ cstate[c] = "live"
  /\ LET clientIP == ipOf(c)
         clientTracker == connectionTracker[clientIP]
     IN IF ~validatePairAddress(pairAddress)
        THEN SubscribeRejected(c, pairAddress, InvalidMessage)
        ELSE IF SubscriptionLimitReached(clientTracker)
        THEN SubscribeRejected(c, pairAddress, LimitMessage)
        ELSE /\ LET r == addSubscription([subscriptions |-> subscriptions, heap |-> heap],
                                         pairAddress, c, callback)
                IN /\ subscriptions' = r.subscriptions
                   /\ heap' = Collect(r.subscriptions, r.heap, inflight)
                   /\ out' = [kind |-> "subscribed", client |-> c,
                              pairAddress |-> pairAddress, callback |-> callback,
                              isNewSubscription |-> r.result]
             /\ connectionTracker' =
                  IF clientTracker.present
                  THEN [connectionTracker EXCEPT ![clientIP].subscriptions = @ \cup {pairAddress}]
                  ELSE connectionTracker
             /\ revoked' = Kept([o \in ObjIds |->
                                    IF heap[o].pairAddress = pairAddress
                                    THEN revoked[o] \ {c} ELSE revoked[o]], heap')
             /\ probe' = Followed(probe, heap')
  /\ UNCHANGED <<cstate, inflight>>
  /\ UNCHANGED overtaken
  /\ UNCHANGED limiterVars
  /\ UNCHANGED trendingVars
  /\ UNCHANGED contractVars

\* socket.on('unsubscribe')
UnsubscribeReq(c, pairAddress) ==
  /\ cstate[c] = "live"
  /\ LET clientIP == ipOf(c)
         clientTracker == connectionTracker[clientIP]
         r == removeSubscription([subscriptions |-> subscriptions, heap |-> heap],
                                 pairAddress, c)
     IN /\ subscriptions' = r.subscriptions
        /\ heap' = Collect(r.subscriptions, r.heap, inflight)
        /\ connectionTracker' =
             IF clientTracker.present
             THEN [connectionTracker EXCEPT ![clientIP].subscriptions = @ \ {pairAddress}]
             ELSE connectionTracker
        /\ revoked' = Kept([o \in ObjIds |->
                               IF heap[o].pairAddress = pairAddress
                               THEN revoked[o] \cup {c} ELSE revoked[o]], heap')
        /\ out' = [kind |-> "unsubscribed", client |-> c, pairAddress |-> pairAddress,
                   remaining |-> r.result, warned |-> r.warned]
  /\ probe' = Followed(probe, heap')
  /\ UNCHANGED <<cstate, inflight>>
  /\ UNCHANGED overtaken
  /\ UNCHANGED limiterVars
  /\ UNCHANGED trendingVars
  /\ UNCHANGED contractVars

\* for (const pairAddress of subscriptions) await removeSubscription(pairAddress, clientId)
RECURSIVE RemoveAll(_, _, _)
RemoveAll(st, pairs, clientId) ==
  IF pairs = {} THEN st
  ELSE LET pairAddress == CHOOSE p \in pairs : \A q \in pairs : p <= q
           r == removeSubscription(st, pairAddress, clientId)
       IN RemoveAll([subscriptions |-> r.subscriptions, heap |-> r.heap],
                    pairs \ {pairAddress}, clientId)

\* socket.on('disconnect')
Disconnect(c) ==
  /\ cstate[c] = "live"
  /\ LET clientIP == ipOf(c)
         clientTracker == connectionTracker[clientIP]
         pairs == IF clientTracker.present THEN clientTracker.subscriptions ELSE {}
         r == RemoveAll([subscriptions |-> subscriptions, heap |-> heap], pairs, c)
     IN /\ subscriptions' = r.subscriptions
        /\ heap' = Collect(r.subscriptions, r.heap, inflight)
        /\ connectionTracker' =
             [connectionTracker EXCEPT ![clientIP] = cleanupClientTracking(clientTracker)]
  /\ cstate' = [cstate EXCEPT ![c] = "closed"]
  /\ revoked' = Kept([o \in ObjIds |-> revoked[o] \ {c}], heap')
  /\ out' = [kind |-> "disconnected", client |-> c]
  /\ probe' = Followed(probe, heap')
  /\ UNCHANGED inflight
  /\ UNCHANGED overtaken
  /\ UNCHANGED limiterVars
  /\ UNCHANGED trendingVars
  /\ UNCHANGED contractVars

(* ---- the system ---- *)

Init ==
  /\ cstate = [c \in AllClients |-> "idle"]
  /\ connectionTracker = [ip \in AllIPs |-> NoTracker]
  /\ subscriptions = [k \in IdStrings |-> NoObj]
  /\ heap = [o \in ObjIds |-> Free]
  /\ inflight = [o \in ObjIds |-> 0]
  /\ overtaken = [o \in ObjIds |-> 0]
  /\ revoked = [o \in ObjIds |-> {}]
  /\ probe = [o \in ObjIds |-> ProbeStart]
  /\ out = Quiet
  /\ now = RATE_LIMIT_DELAY
  /\ lastRequest = 0
  /\ apiCache = [u \in Urls |-> NoEntry]
  /\ callers = [c \in Callers |-> Idle]
  /\ lastCall = NoCall
  /\ cachedTokens = <<>>
  /\ lastFetch = 0
  /\ fetchInProgress = FALSE
  /\ requests = [r \in Requesters |-> NoRequest]
  /\ deployed = FALSE
  /\ owner = ZeroAddress
  /\ feePercentage = 0
  /\ feeCollectionAddress = ZeroAddress
  /\ balance = 0
  /\ tokenBalance = 0

\* the model holds at most n TokenSubscription objects at a time
Room(n, pairAddress) == subscriptions[pairAddress] # NoObj \/ Cardinality(Live(heap)) < n

\* One client, one pair, one price string, upstream failures: the life cycle of
\* subscriptions, timers and ticks.
Next ==
  \/ \E c \in Clients : Connect(c)
  \/ \E c \in Clients : WindowElapses(ipOf(c))
  \/ \E c \in Clients, k \in Ids, cb \in SameCallback :
        Room(MaxObjs, k) /\ SubscribeReq(c, k, cb)
  \/ \E c \in Clients, k \in Ids : UnsubscribeReq(c, k)
  \/ \E c \in Clients : Disconnect(c)
  \/ \E o \in ObjIds : TimerFire(o)
  \/ \E o \in ObjIds, p \in CorePrices \cup {Null}, t \in SUBSET Clients : FetchDone(o, p, t)

Spec == Init /\ [][Next]_vars

\* Every price string, an upstream that answers every fetch: change detection
\* and classification.  (A failed fetch returns before it reads or writes
\* lastPrice; Spec covers it.)
NextPrices ==
  \/ \E c \in Clients : Connect(c)
  \/ \E c \in Clients : WindowElapses(ipOf(c))
  \/ \E c \in Clients, k \in Ids, cb \in SameCallback :
        Room(MaxObjs, k) /\ SubscribeReq(c, k, cb)
  \/ \E c \in Clients, k \in Ids : UnsubscribeReq(c, k)
  \/ \E c \in Clients : Disconnect(c)
  \/ \E o \in ObjIds : TimerFire(o)
  \/ \E o \in ObjIds, p \in PriceStrings, t \in SUBSET Clients : FetchDone(o, p, t)

SpecPrices == Init /\ [][NextPrices]_vars

\* Two clients behind one address and six pairs, so that the limit of five is
\* met.  Client 1 may subscribe to every pair, the others to the pairs of Ids
\* and to malformed addresses;
\* unsubscribe requests come for the pairs of Ids.  The requests arrive within
\* one timer period (UPDATE_INTERVAL, 2 s), so no tick runs between them: the
\* timers are created and cleared but do not fire.
PairsOf(c) == IF c = 1 THEN WideIds ELSE Ids \cup BadIds

NextGateway ==
  \/ \E c \in GatewayClients : Connect(c)
  \/ \E c \in GatewayClients : WindowElapses(ipOf(c))
  \/ \E c \in GatewayClients, k \in IdStrings, cb \in SameCallback :
        k \in PairsOf(c) /\ Room(Cardinality(ObjIds), k) /\ SubscribeReq(c, k, cb)
  \/ \E c \in GatewayClients, k \in Ids : UnsubscribeReq(c, k)
  \/ \E c \in GatewayClients : Disconnect(c)

SpecGateway == Init /\ [][NextGateway]_vars

\* Two clients, one pair, requests that register different callbacks, an
\* upstream that answers and callbacks that do not throw: what a repeated
\* subscribe does to the callbacks map and to the deliveries.
NextCallbacks ==
  \/ \E c \in GatewayClients : Connect(c)
  \/ \E c \in GatewayClients, k \in Ids, cb \in Callbacks :
        Room(MaxObjs, k) /\ SubscribeReq(c, k, cb)
  \/ \E c \in GatewayClients, k \in Ids : UnsubscribeReq(c, k)
  \/ \E c \in GatewayClients : Disconnect(c)
  \/ \E o \in ObjIds : TimerFire(o)
  \/ \E o \in ObjIds, p \in PriceStrings : FetchDone(o, p, {})

SpecCallbacks == Init /\ [][NextCallbacks]_vars

\* Three connections from one address, one more than MaxConnectionsPerIp, and
\* the rate-limit window: the connection tracking.
NextConnections ==
  \/ \E c \in ConnClients : Connect(c)
  \/ \E c \in ConnClients : WindowElapses(ipOf(c))
  \/ \E c \in ConnClients, k \in Ids, cb \in SameCallback :
        Room(MaxObjs, k) /\ SubscribeReq(c, k, cb)
  \/ \E c \in ConnClients, k \in Ids : UnsubscribeReq(c, k)
  \/ \E c \in ConnClients : Disconnect(c)

SpecConnections == Init /\ [][NextConnections]_vars

\* Two clients, one pair, an upstream that answers, callbacks that may throw:
\* the fan-out of an update.
NextThrow ==
  \/ \E c \in GatewayClients : Connect(c)
  \/ \E c \in GatewayClients, k \in Ids, cb \in SameCallback :
        Room(MaxObjs, k) /\ SubscribeReq(c, k, cb)
  \/ \E c \in GatewayClients, k \in Ids : UnsubscribeReq(c, k)
  \/ \E c \in GatewayClients : Disconnect(c)
  \/ \E o \in ObjIds : TimerFire(o)
  \/ \E o \in ObjIds, p \in CorePrices, t \in SUBSET GatewayClients : FetchDone(o, p, t)

SpecThrow == Init /\ [][NextThrow]_vars

\* One client, one pair, every shape of upstream response.
NextResponses ==
  \/ \E c \in Clients : Connect(c)
  \/ \E c \in Clients, k \in Ids, cb \in SameCallback :
        Room(MaxObjs, k) /\ SubscribeReq(c, k, cb)
  \/ \E c \in Clients, k \in Ids : UnsubscribeReq(c, k)
  \/ \E o \in ObjIds : TimerFire(o)
  \/ \E o \in ObjIds, response \in Responses : FetchAnswered(o, response)

SpecResponses == Init /\ [][NextResponses]_vars

\* Concurrent requests to GET /trending and POST /trending/refresh while the
\* cache ages and the provider is up or down.
NextTrending ==
  \/ \E r \in Requesters, limit \in Limits, force \in BOOLEAN : GetRequest(r, limit, force)
  \/ \E r \in Requesters, upstream \in Upstreams : GetFetchDone(r, upstream)
  \/ \E r \in Requesters : RefreshRequest(r)
  \/ \E r \in Requesters, upstream \in Upstreams : RefreshFetchDone(r, upstream)
  \/ AdvanceFar

SpecTrending == Init /\ [][NextTrending]_vars

\* Every upstream request of fetchTrendingTokens is aborted after 10 s and the
\* function catches every failure, so the awaited fetch of a handler settles
\* and the handler runs on.
SpecTrendingFair ==
  /\ Init
  /\ [][NextTrending]_vars
  /\ WF_vars(\E r \in Requesters, upstream \in Upstreams : GetFetchDone(r, upstream))
  /\ WF_vars(\E r \in Requesters, upstream \in Upstreams : RefreshFetchDone(r, upstream))

\* Accounts that deploy the contract and call its owner functions, while ETH
\* and tokens arrive at it.
NextContract ==
  \/ \E a \in Accounts, fee \in FeeArgs, to \in Addresses : Deploy(a, fee, to)
  \/ \E a \in Accounts, fee \in FeeArgs : setFeePercentage(a, fee)
  \/ \E a \in Accounts, to \in Addresses : setFeeCollectionAddress(a, to)
  \/ \E a \in Accounts, t \in {EthToken, Erc20Token}, n \in Amounts, ok \in BOOLEAN,
        outcome \in TokenOutcomes : emergencyWithdraw(a, t, n, ok, outcome)
  \/ \E a \in Accounts, n \in Amounts : Receive(a, n)
  \/ \E a \in Accounts, n \in Amounts : TokenReceived(a, n)
  \/ \E a \in Accounts, t \in {Erc20Token, WETH}, n \in Amounts, ok \in BOOLEAN :
        swapEthToToken(a, t, n, ok)
  \/ \E a \in Accounts, t \in {Erc20Token, WETH}, n \in Amounts, ok \in BOOLEAN :
        swapTokenToEth(a, t, n, ok)
  \/ \E a \in Accounts, to \in Addresses : transferOwnership(a, to)
  \/ \E a \in Accounts : renounceOwnership(a)

SpecContract == Init /\ [][NextContract]_vars

\* Two clients, one pair, an upstream that answers every fetch, and cleanup():
\* a subscription leaves the map through cleanup() only.
NextCleanup ==
  \/ \E c \in GatewayClients : Connect(c)
  \/ \E c \in GatewayClients, k \in Ids, cb \in SameCallback :
        Room(MaxObjs, k) /\ SubscribeReq(c, k, cb)
  \/ \E o \in ObjIds : TimerFire(o)
  \/ \E o \in ObjIds, p \in PriceStrings : FetchDone(o, p, {})
  \/ cleanup

SpecCleanup == Init /\ [][NextCleanup]_vars

\* the model holds at most n TokenSubscription objects of a pair at a time
RoomFor(n, pairAddress) ==
  \/ subscriptions[pairAddress] # NoObj
  \/ Cardinality({o \in Live(heap) : heap[o].pairAddress = pairAddress}) < n

\* the client asks for the pairs outside Ids in increasing order
InOrder(c, k) ==
  \A j \in WideIds \ Ids : j < k => j \in connectionTracker[ipOf(c)].subscriptions

\* One client that subscribes to up to six pairs and an upstream that fails
\* every fetch of the pairs of Ids: eviction by the error threshold next to
\* the subscription limit.
NextEvict ==
  \/ \E c \in Clients : Connect(c)
  \/ \E c \in Clients, k \in WideIds, cb \in SameCallback :
        /\ RoomFor(MaxObjs, k)
        /\ InOrder(c, k)
        /\ SubscribeReq(c, k, cb)
  \/ \E o \in ObjIds : heap[o].pairAddress \in Ids /\ TimerFire(o)
  \/ \E o \in ObjIds : FetchDone(o, Null, {})

SpecEvict == Init /\ [][NextEvict]_vars

\* One client and two pairs, an upstream that answers or fails: what a failed
\* fetch does to its own subscription and to the other pair's.
FailIds == 1..NumFailIds

NextFail ==
  \/ \E c \in Clients : Connect(c)
  \/ \E c \in Clients, k \in FailIds, cb \in SameCallback :
        RoomFor(1, k) /\ SubscribeReq(c, k, cb)
  \/ \E c \in Clients, k \in FailIds : UnsubscribeReq(c, k)
  \/ \E o \in ObjIds : TimerFire(o)
  \/ \E o \in ObjIds, p \in CorePrices \cup {Null} : FetchDone(o, p, {})

SpecFail == Init /\ [][NextFail]_vars

\* One client, one pair, an upstream that answers every fetch, ticks that
\* overlap and settle in any order.
NextOverlap ==
  \/ \E c \in Clients : Connect(c)
  \/ \E c \in Clients, k \in Ids, cb \in SameCallback :
        Room(MaxObjs, k) /\ SubscribeReq(c, k, cb)
  \/ \E c \in Clients, k \in Ids : UnsubscribeReq(c, k)
  \/ \E o \in ObjIds : TimerFire(o)
  \/ \E o \in ObjIds, i \in 1..MaxInflight, p \in PriceStrings : FetchSettles(o, i, p, {})

SpecOverlap == Init /\ [][NextOverlap]_vars

\* Callers of makeApiRequest (every call of the program passes a cache ttl)
\* while time passes.
NextLimiter ==
  \/ \E c \in Callers, u \in Urls : Request(c, u, TtlOf(u))
  \/ \E c \in Callers : TimeoutFires(c)
  \/ \E c \in Callers, ok \in BOOLEAN, data \in Payloads : Response(c, ok, data)
  \/ Advance

SpecLimiter == Init /\ [][NextLimiter]_vars

TypeOK ==
  /\ \A o \in ObjIds : inflight[o] \in 0..MaxInflight
  /\ \A o \in ObjIds : overtaken[o] \in 0..inflight[o]
  /\ \A o \in ObjIds : heap[o] = Free => inflight[o] = 0
  /\ \A k \in IdStrings : subscriptions[k] # NoObj => heap[subscriptions[k]].pairAddress = k

(* ---- observations ---- *)

\* the running timers of a pair: every object of that pair whose interval is set
TimersOf(k) == {o \in ObjIds : heap[o] # Free /\ heap[o].pairAddress = k /\ heap[o].updateInterval}

\* the subscriber map the manager holds for a pair (none: empty)
SubscribersOf(k) == IF subscriptions[k] = NoObj THEN {} ELSE heap[subscriptions[k]].clients

\* getSubscriptionStats(): the pairs listed
StatsPairs == {k \in IdStrings : subscriptions[k] # NoObj}

(* ---- C1 ---- *)
\* C1: for every identifier a running periodic timer exists if and only if the
\* identifier's subscriber map is non-empty.
C1_TimerIffSubscribers ==
  \A k \in Ids : (TimersOf(k) # {}) <=> (SubscribersOf(k) # {})

(* ---- C2 ---- *)
\* C2: no identifier ever has more than one active timer at a time.
C2_AtMostOneTimer ==
  \A k \in Ids : Cardinality(TimersOf(k)) <= 1

(* ---- C3 ---- *)
\* C3: once an unsubscribe of a client from an identifier has returned, no tick
\* delivers a priceUpdate for that identifier to that client unless it has
\* subscribed to it again.
C3_NoUpdateAfterUnsubscribe ==
  [][out'.kind = "tick" => out'.notified \cap revoked[out'.obj] = {}]_vars

(* ---- C4 ---- *)
\* the identifiers under which the manager holds a callback of a client
HeldBy(c) == {k \in IdStrings : c \in SubscribersOf(k)}

\* C4: when the disconnect handler of a client has run, the manager holds no
\* callback of that client under any identifier, every identifier whose only
\* subscriber it was has no timer and no entry in the map, and the client's
\* connection is closed.
C4_DisconnectCleansUp ==
  [][out'.kind = "disconnected" =>
       \A c \in AllClients : out'.client = c =>
         /\ \A k \in IdStrings : c \notin SubscribersOf(k)'
         /\ \A k \in IdStrings : SubscribersOf(k) = {c} =>
              (subscriptions'[k] = NoObj /\ TimersOf(k)' = {})
         /\ cstate'[c] = "closed"]_vars

(* ---- C5 ---- *)
\* C5: in every reachable state each client holds callbacks in the manager for
\* at most 5 identifiers.
C5_AtMostFivePerClient ==
  \A c \in AllClients : Cardinality(HeldBy(c)) <= MAX_SUBSCRIPTIONS_PER_CLIENT

(* ---- C6 ---- *)
\* C6: a subscribe request answered with the limit error changes nothing: the
\* manager's map, its subscriptions with their callbacks and timers, the
\* pending ticks, the connection records and the connections stay as they were.
C6_RejectionChangesNothing ==
  [][(out'.kind = "error" /\ out'.message = LimitMessage) =>
       UNCHANGED <<subscriptions, heap, inflight, connectionTracker, cstate>>]_vars

\* a client holding five subscriptions, each with its timer, has just been
\* refused a sixth
C6_Witness ==
  /\ out.kind = "error" /\ out.message = LimitMessage
  /\ Cardinality(HeldBy(out.client)) = MAX_SUBSCRIPTIONS_PER_CLIENT
  /\ out.pairAddress \notin HeldBy(out.client)
  /\ \A k \in HeldBy(out.client) : TimersOf(k) # {}

(* ---- C7 ---- *)
\* C7: a subscribe request with a valid identifier from a client that holds
\* fewer than 5 subscriptions is answered 'subscribed', the client's callback is
\* in the manager under that identifier, and the identifier is in the set
\* recorded for the client.
C7_SubscribeBelowLimitAccepted ==
  [][\A c \in AllClients, k \in IdStrings :
       ( /\ out'.kind \in {"subscribed", "error"}
         /\ out'.client = c /\ out'.pairAddress = k
         /\ validatePairAddress(k)
         /\ Cardinality(HeldBy(c)) < MAX_SUBSCRIPTIONS_PER_CLIENT ) =>
           /\ out'.kind = "subscribed"
           /\ c \in SubscribersOf(k)'
           /\ connectionTracker'[ipOf(c)].present
           /\ k \in connectionTracker'[ipOf(c)].subscriptions]_vars

(* ---- C8 ---- *)
\* C8: a successful tick emits an update if and only if lastPrice is null or
\* the fetched price differs from lastPrice; a subscription whose fetched prices
\* are "1.00", "1.00", "1.00", "1.05" has emitted exactly two updates, one at
\* the first "1.00" and one at "1.05".
C8_ChangeOnlyEmission ==
  /\ [][\A o \in ObjIds :
          (out'.kind = "tick" /\ out'.obj = o /\ out'.priceUsd # Null) =>
            (out'.emitted <=>
               (heap[o].lastPrice = Null \/ heap[o].lastPrice # out'.priceUsd))]_vars
  /\ [](\A o \in ObjIds :
          /\ probe[o].pos \in {1, 2, 3} => probe[o].emits = 1
          /\ probe[o].pos = Len(Script) => probe[o].emits = 2)

\* a subscription has fetched the whole script
C8_Witness ==
  \E o \in ObjIds : probe[o].pos = Len(Script) /\ heap[o].lastPrice = Script[Len(Script)]

(* ---- C9 ---- *)
\* C9: the first update of a fresh subscription carries 'unchanged'; a later
\* update carries 'increase' if the new price is numerically higher than the
\* previous lastPrice, 'decrease' if it is lower, 'unchanged' otherwise.
C9_ChangeClassification ==
  [][\A o \in ObjIds :
       (out'.kind = "tick" /\ out'.obj = o /\ out'.emitted) =>
         LET previous == heap[o].lastPrice
             current == out'.priceUsd
         IN /\ previous = Null => out'.change = "unchanged"
            /\ (previous # Null /\ parseFloat(current) > parseFloat(previous))
                 => out'.change = "increase"
            /\ (previous # Null /\ parseFloat(current) < parseFloat(previous))
                 => out'.change = "decrease"
            /\ (previous # Null /\ parseFloat(current) = parseFloat(previous))
                 => out'.change = "unchanged"]_vars

\* a later update, with a lower price, has reached a subscriber
C9_Witness ==
  /\ out.kind = "tick" /\ out.emitted /\ out.change = "decrease"
  /\ out.notified # {}

(* ---- C10 ---- *)
\* C10: a successful fetch resets the subscription's errorCount to 0, and the
\* failed fetch that takes the errorCount to 5 leaves the identifier with no
\* running timer and no entry in the manager's map (so none in the stats),
\* whatever its subscribers; a failure below the threshold only counts.
C10_ErrorThreshold ==
  [][\A o \in ObjIds :
       (out'.kind = "tick" /\ out'.obj = o) =>
         /\ out'.priceUsd # Null => (heap'[o] = Free \/ heap'[o].errorCount = 0)
         /\ (out'.priceUsd = Null /\ heap[o].errorCount + 1 >= MAX_ERROR_COUNT) =>
              /\ \A q \in ObjIds :
                   (heap'[q] # Free /\ heap'[q].pairAddress = heap[o].pairAddress)
                     => ~heap'[q].updateInterval
              /\ subscriptions'[heap[o].pairAddress] = NoObj
              /\ heap[o].pairAddress \notin StatsPairs'
         /\ (out'.priceUsd = Null /\ heap[o].errorCount + 1 < MAX_ERROR_COUNT) =>
              /\ heap'[o] # Free => heap'[o].errorCount = heap[o].errorCount + 1
              /\ subscriptions' = subscriptions]_vars

(* ---- C11 ---- *)
\* C11: while an identifier has no entry in the manager's map (its subscription
\* was evicted by the error threshold and nobody has subscribed to it since),
\* no tick delivers a priceUpdate for it to any client, pending ticks included.
C11_NoUpdateAfterEviction ==
  [][\A o \in ObjIds :
       (out'.kind = "tick" /\ out'.obj = o /\ out'.notified # {}) =>
         subscriptions[heap[o].pairAddress] # NoObj]_vars

(* ---- C12 ---- *)
\* C12 (as stated): an unsubscribe of a client that is not subscribed to the
\* identifier, or for an identifier that has no subscription, answers false
\* and leaves every subscription of the other clients as it was.
C12_UnsubscribeAbsentReturnsFalse ==
  [][\A c \in AllClients, k \in IdStrings :
       ( /\ out'.kind = "unsubscribed" /\ out'.client = c /\ out'.pairAddress = k
         /\ c \notin SubscribersOf(k) ) =>
           /\ ~out'.remaining
           /\ \A k2 \in IdStrings :
                SubscribersOf(k2) # {} =>
                  /\ subscriptions'[k2] = subscriptions[k2]
                  /\ heap'[subscriptions[k2]] = heap[subscriptions[k2]]]_vars

\* C12 (amended): such an unsubscribe is answered (it does not throw), logs a
\* warning, answers whether the identifier still has subscribers (false when
\* it has no subscription, true when other clients are subscribed), and leaves
\* every subscription of the other clients (callbacks, timer, lastPrice,
\* errorCount) as it was.
C12_UnsubscribeAbsentIsNoOp ==
  [][\A c \in AllClients, k \in IdStrings :
       ( /\ out'.kind = "unsubscribed" /\ out'.client = c /\ out'.pairAddress = k
         /\ c \notin SubscribersOf(k) ) =>
           /\ out'.warned
           /\ out'.remaining = (SubscribersOf(k) # {})
           /\ subscriptions[k] = NoObj => ~out'.remaining
           /\ \A k2 \in IdStrings :
                SubscribersOf(k2) # {} =>
                  /\ subscriptions'[k2] = subscriptions[k2]
                  /\ heap'[subscriptions[k2]] = heap[subscriptions[k2]]]_vars

\* a client that was not subscribed has unsubscribed from an identifier that
\* another client is subscribed to
C12_Witness ==
  /\ out.kind = "unsubscribed" /\ out.warned /\ out.remaining
  /\ SubscribersOf(out.pairAddress) # {}
  /\ out.client \notin SubscribersOf(out.pairAddress)

(* ---- C13 ---- *)
\* C13: a subscribe of a client that is already subscribed to the identifier
\* replaces its callback by the new one, leaves the subscribers, the other
\* callbacks, the subscription object and the identifier's timers as they were;
\* and a tick that emits reaches every notified client through exactly the
\* callback the map holds for it.
C13_SubscribeIdempotent ==
  [][/\ \A c \in AllClients, k \in IdStrings :
          ( /\ out'.kind = "subscribed" /\ out'.client = c /\ out'.pairAddress = k
            /\ c \in SubscribersOf(k) ) =>
              /\ subscriptions'[k] = subscriptions[k]
              /\ SubscribersOf(k)' = SubscribersOf(k)
              /\ heap'[subscriptions[k]].callbacks[c] = out'.callback
              /\ \A d \in AllClients \ {c} :
                   heap'[subscriptions[k]].callbacks[d] = heap[subscriptions[k]].callbacks[d]
              /\ TimersOf(k)' = TimersOf(k)
              /\ heap'[subscriptions[k]].updateInterval
     /\ \A o \in ObjIds :
          (out'.kind = "tick" /\ out'.obj = o /\ out'.emitted) =>
            /\ out'.notified = heap[o].clients
            /\ \A c \in AllClients :
                 out'.via[c] = IF c \in out'.notified THEN heap[o].callbacks[c] ELSE NoCallback
            /\ \A c \in out'.notified : out'.via[c] # NoCallback]_vars

\* the only subscriber of a subscription that has already emitted a price has
\* subscribed again, and the map holds the callback of this request
C13_Witness ==
  /\ out.kind = "subscribed" /\ out.callback = NumCallbacks
  /\ subscriptions[out.pairAddress] # NoObj
  /\ heap[subscriptions[out.pairAddress]].clients = {out.client}
  /\ heap[subscriptions[out.pairAddress]].callbacks[out.client] = NumCallbacks
  /\ heap[subscriptions[out.pairAddress]].lastPrice # Null

(* ---- C14 ---- *)
\* C14: when an unsubscribe removes the last subscriber of an identifier's
\* subscription, that subscription's timer is cleared and the identifier has no
\* entry in the map (nor in the stats) when the request is answered; a subscribe for an identifier without entry creates a new
\* subscription with lastPrice null and errorCount 0; and the first priced
\* fetch of a subscription whose lastPrice is null is emitted, whatever the
\* price.
C14_LastUnsubscribeRemoves ==
  [][/\ \A c \in AllClients, k \in IdStrings :
          ( /\ out'.kind = "unsubscribed" /\ out'.client = c /\ out'.pairAddress = k
            /\ SubscribersOf(k) = {c} ) =>
              /\ subscriptions'[k] = NoObj
              /\ k \notin StatsPairs'
              /\ \A o \in ObjIds :
                   subscriptions[k] = o => (heap'[o] = Free \/ ~heap'[o].updateInterval)
     /\ \A c \in AllClients, k \in IdStrings :
          ( /\ out'.kind = "subscribed" /\ out'.client = c /\ out'.pairAddress = k
            /\ subscriptions[k] = NoObj ) =>
              /\ subscriptions'[k] # NoObj
              /\ heap'[subscriptions'[k]].lastPrice = Null
              /\ heap'[subscriptions'[k]].errorCount = 0
              /\ heap'[subscriptions'[k]].clients = {c}
              /\ heap'[subscriptions'[k]].updateInterval
     /\ \A o \in ObjIds :
          ( /\ out'.kind = "tick" /\ out'.obj = o /\ out'.priceUsd # Null
            /\ heap[o].lastPrice = Null ) => out'.emitted]_vars

\* a subscription that had delivered a price was removed by its last
\* unsubscribe (timer cleared, a tick still pending), and the first priced fetch
\* of the subscription created after it has emitted that same price
C14_Witness ==
  \E o1, o2 \in ObjIds :
    /\ o1 # o2
    /\ heap[o1] # Free /\ heap[o2] # Free
    /\ heap[o1].pairAddress = heap[o2].pairAddress
    /\ subscriptions[heap[o2].pairAddress] = o2
    /\ heap[o1].clients = {} /\ ~heap[o1].updateInterval
    /\ heap[o1].errorCount < MAX_ERROR_COUNT
    /\ heap[o1].lastPrice # Null
    /\ out.kind = "tick" /\ out.obj = o2 /\ out.emitted
    /\ out.change = "unchanged" /\ out.notified # {}
    /\ out.priceUsd = heap[o1].lastPrice

(* ---- C15 ---- *)
\* C15: a pending tick of a subscription that an unsubscribe has cancelled (no
\* subscribers, timer cleared), settling after the identifier has been
\* subscribed to again, leaves the new subscription alone: it reaches none of
\* its subscribers, leaves its lastPrice, errorCount, callbacks and timer as
\* they were, and leaves it in the map.
C15_NoGhostOfCancelledCycle ==
  [][\A o \in ObjIds :
       ( /\ out'.kind = "tick" /\ out'.obj = o
         /\ heap[o].clients = {} /\ ~heap[o].updateInterval
         /\ subscriptions[heap[o].pairAddress] \notin {o, NoObj} ) =>
           LET new == subscriptions[heap[o].pairAddress]
           IN /\ out'.notified \cap heap[new].clients = {}
              /\ heap'[new] = heap[new]
              /\ subscriptions'[heap[o].pairAddress] = new]_vars

(* ---- C16 ---- *)
\* C16: a subscribe request with a malformed identifier (not 0x followed by 40
\* hexadecimal characters) is answered with the format error and changes
\* nothing: the manager's map and subscriptions, the pending ticks, the
\* subscribed sets of the connection records and the connections stay as they
\* were.
C16_InvalidIdentifierRejected ==
  [][( /\ out'.kind \in {"subscribed", "error"}
       /\ out'.pairAddress \in BadIds ) =>
         /\ out'.kind = "error" /\ out'.message = InvalidMessage
         /\ UNCHANGED <<subscriptions, heap, inflight, connectionTracker, cstate>>]_vars

\* a client behind an address that holds a subscription has sent a malformed
\* identifier and got the format error
C16_Witness ==
  /\ out.kind = "error" /\ out.message = InvalidMessage
  /\ out.pairAddress \in BadIds
  /\ ~validatePairAddress(out.pairAddress)
  /\ connectionTracker[ipOf(out.client)].subscriptions # {}
  /\ \E k \in Ids : SubscribersOf(k) # {}

(* ---- C17 ---- *)
\* the accepted connections of an address that are still open
LiveFrom(ip) == {c \in AllClients : ipOf(c) = ip /\ cstate[c] = "live"}

\* C17: in every reachable state an address has at most MaxConnectionsPerIp
\* open accepted connections; and a connection refused for the limit is closed
\* and leaves the connection records, the manager and the other connections as
\* they were.
C17_ConnectionLimit ==
  /\ [](\A ip \in AllIPs : Cardinality(LiveFrom(ip)) <= MaxConnectionsPerIp)
  /\ [][\A c \in AllClients :
          (out'.kind = "refused" /\ out'.client = c) =>
            /\ cstate' = [cstate EXCEPT ![c] = "closed"]
            /\ UNCHANGED <<connectionTracker, subscriptions, heap, inflight>>]_vars

(* ---- C18 ---- *)
\* C18: in a tick that emits an update during which callbacks throw, every
\* subscriber whose callback did not throw is notified, through its callback,
\* and stays in the subscription with that callback; only the throwing clients
\* are removed; the subscription keeps its place in the map and its timer.
C18_ThrowRemovesOnlyThrower ==
  [][\A o \in ObjIds :
       ( /\ out'.kind = "tick" /\ out'.obj = o /\ out'.emitted
         /\ out'.threw # {}
         /\ subscriptions[heap[o].pairAddress] = o ) =>
           /\ out'.threw \subseteq heap[o].clients
           /\ out'.notified = heap[o].clients \ out'.threw
           /\ \A c \in out'.notified : out'.via[c] = heap[o].callbacks[c]
           /\ heap'[o].clients = heap[o].clients \ out'.threw
           /\ \A c \in heap'[o].clients : heap'[o].callbacks[c] = heap[o].callbacks[c]
           /\ subscriptions' = subscriptions
           /\ heap'[o].updateInterval = heap[o].updateInterval
           /\ heap'[o].lastPrice = out'.priceUsd]_vars

\* one of two subscribers threw; the other got the update and is still
\* subscribed, and the subscription is still in the map with its timer
C18_Witness ==
  /\ out.kind = "tick" /\ out.emitted
  /\ out.threw # {} /\ out.notified # {}
  /\ subscriptions[heap[out.obj].pairAddress] = out.obj
  /\ heap[out.obj].clients = out.notified
  /\ heap[out.obj].updateInterval

(* ---- C19 ---- *)
\* the client's address has the identifier recorded as subscribed, but the
\* manager has no subscription for it: the error threshold has evicted it (no
\* client of SpecEvict unsubscribes or disconnects)
Evicted(c, k) ==
  /\ connectionTracker[ipOf(c)].present
  /\ k \in connectionTracker[ipOf(c)].subscriptions
  /\ subscriptions[k] = NoObj

\* C19: a subscribe request of a client for an identifier whose subscription
\* the error threshold has evicted is answered 'subscribed' and creates a new
\* subscription for it: the client is its subscriber, lastPrice is null,
\* errorCount 0, the timer runs.
C19_ResubscribeAfterEviction ==
  [][\A c \in AllClients, k \in IdStrings :
       ( /\ out'.kind \in {"subscribed", "error"}
         /\ out'.client = c /\ out'.pairAddress = k
         /\ Evicted(c, k) ) =>
           /\ out'.kind = "subscribed"
           /\ subscriptions'[k] # NoObj
           /\ heap'[subscriptions'[k]].clients = {c}
           /\ heap'[subscriptions'[k]].lastPrice = Null
           /\ heap'[subscriptions'[k]].errorCount = 0
           /\ heap'[subscriptions'[k]].updateInterval]_vars

(* ---- C20 ---- *)
\* C20: an outbound call to the upstream provider starts at least
\* RATE_LIMIT_DELAY after the start of the one before it, however many callers
\* are inside the rate limiter.
C20_CallsSpacedByDelay ==
  [][(out'.kind = "request" /\ lastCall # NoCall) =>
        out'.at - lastCall >= RATE_LIMIT_DELAY]_vars

(* ---- C21 ---- *)
\* the callers whose fetch of a url is in flight
FetchingOf(u) == {c \in Callers : callers[c].pc = "fetching" /\ callers[c].url = u}

\* C21: at no time are two upstream fetches of the same url in flight together.
C21_OneFetchPerKey == \A u \in Urls : Cardinality(FetchingOf(u)) <= 1

(* ---- C22 ---- *)
\* the cache holds an entry of the url that has not expired
Unexpired(u) == apiCache[u].present /\ now - apiCache[u].timestamp <= apiCache[u].ttl

\* C22: a call of makeApiRequest for a url with an unexpired cache entry
\* returns the cached payload: no fetch starts, the caller does not wait, and
\* lastRequest is unchanged.
C22_CacheHitBypassesLimiter ==
  [][\A c \in Callers, u \in Urls :
       ( /\ callers[c].pc = "idle"
         /\ out'.kind \in {"cached", "waiting", "request"}
         /\ out'.caller = c /\ out'.url = u
         /\ Unexpired(u) ) =>
           /\ out'.kind = "cached"
           /\ out'.data = apiCache[u].data
           /\ UNCHANGED <<lastRequest, lastCall, callers>>]_vars

(* ---- C23 ---- *)
\* the response has no record, no price, or a record of another identifier
Unusable(response, pairAddress) ==
  \/ ~response.found
  \/ response.priceUsd = Null
  \/ response.pairAddress # pairAddress

\* C23: a tick whose response has no record, no price, or a record that does
\* not match the requested identifier emits no update, leaves lastPrice
\* unchanged and counts one more error.
C23_UnusableResponseIsFailure ==
  [][\A o \in ObjIds, response \in Responses :
       (FetchAnswered(o, response) /\ Unusable(response, heap[o].pairAddress)) =>
          /\ ~out'.emitted
          /\ out'.notified = {}
          /\ heap'[o] # Free =>
                /\ heap'[o].lastPrice = heap[o].lastPrice
                /\ heap'[o].errorCount = heap[o].errorCount + 1]_vars

(* ---- C24 ---- *)
\* the step is the synchronous part of a GET /trending of requester r
GetStep(r) ==
  /\ requests[r].pc = "idle"
  /\ out'.kind \in {"fetch", "trending"}
  /\ out'.requester = r
  /\ out'.kind = "fetch" => out'.route = "get"

\* forceRefresh is set, or nothing is cached, or the cache is older than the TTL
RefreshDue(forceRefresh) ==
  forceRefresh \/ Len(cachedTokens) = 0 \/ now - lastFetch > CACHE_DURATION

\* C24 as stated: a GET /trending with forceRefresh set, nothing cached or a
\* cache older than the TTL starts a batch fetch.
C24_RefreshWheneverDue ==
  [][\A r \in Requesters :
       (GetStep(r) /\ RefreshDue(out'.forceRefresh)) =>
          /\ out'.kind = "fetch"
          /\ requests'[r].pc = "fetching"]_vars

\* C24 amended: such a GET starts a batch fetch when no fetch is in flight;
\* when one is, it answers at once from the cache as it is, marked cacheHit,
\* and starts nothing.  A GET for which no refresh is due never fetches.
C24_RefreshWhenDueAndIdle ==
  [][\A r \in Requesters :
       GetStep(r) =>
          IF RefreshDue(out'.forceRefresh) /\ ~fetchInProgress
          THEN /\ out'.kind = "fetch"
               /\ requests'[r].pc = "fetching"
               /\ fetchInProgress'
               /\ UNCHANGED <<cachedTokens, lastFetch>>
          ELSE /\ out'.kind = "trending" /\ out'.status = 200
               /\ out'.cacheHit /\ ~out'.fetched
               /\ \E limit \in Limits : out'.tokens = slice(cachedTokens, limit)
               /\ UNCHANGED trendingVars]_vars

\* a GET without force has started a fetch because the non-empty cache was
\* older than the TTL
C24_Witness ==
  /\ out.kind = "fetch" /\ out.route = "get" /\ ~out.forceRefresh
  /\ Len(cachedTokens) > 0
  /\ now - lastFetch > CACHE_DURATION

(* ---- C25 ---- *)
\* the step is the rest of a GET /trending of requester r, after its fetch
GetAnswerStep(r) ==
  /\ requests[r].pc = "fetching" /\ requests[r].route = "get"
  /\ out'.kind = "trending"
  /\ out'.requester = r

\* C25: a GET /trending whose upstream fetch fails while tokens are cached
\* answers 200 with the cached tokens, marked cacheHit.
C25_StaleCacheOnFailure ==
  [][\A r \in Requesters :
       (GetAnswerStep(r) /\ ~out'.upstreamOk /\ Len(cachedTokens) > 0) =>
          /\ out'.status = 200
          /\ out'.tokens = slice(cachedTokens, requests[r].limit)
          /\ out'.cacheHit]_vars

(* ---- C26 ---- *)
\* C26: a GET /trending whose upstream fetch fails while nothing is cached
\* answers with a 5xx, and cachedTokens and lastFetch stay as they were.
C26_NoDataAvailable ==
  [][\A r \in Requesters :
       (GetAnswerStep(r) /\ ~out'.upstreamOk /\ Len(cachedTokens) = 0) =>
          /\ out'.status >= 500
          /\ cachedTokens' = <<>>
          /\ lastFetch' = lastFetch]_vars

(* ---- C27 ---- *)
\* the requests whose fetchTrendingTokens() is in flight
InFlight == {r \in Requesters : requests[r].pc = "fetching"}

\* the step is the synchronous part of a POST /trending/refresh of requester r
RefreshStep(r) ==
  /\ requests[r].pc = "idle"
  /\ \/ out'.kind = "refresh"
     \/ out'.kind = "fetch" /\ out'.route = "post"
  /\ out'.requester = r

\* C27: at most one trending fetch is in flight, whichever routes the requests
\* came through, and a POST /trending/refresh that arrives while one is in
\* flight is answered 429: it starts no fetch and leaves the cache alone.
C27_OneTrendingFetch ==
  /\ [](Cardinality(InFlight) <= 1)
  /\ [][\A r \in Requesters :
          (RefreshStep(r) /\ InFlight # {}) =>
             /\ out'.kind = "refresh" /\ out'.status = 429
             /\ UNCHANGED trendingVars]_vars

\* a refresh has just been refused while the fetch of a GET is in flight
C27_Witness ==
  /\ out.kind = "refresh" /\ out.status = 429
  /\ \E r \in InFlight : requests[r].route = "get"

(* ---- C28 ---- *)
OwnerFunctions == {"setFeePercentage", "setFeeCollectionAddress", "emergencyWithdraw"}

\* C28: a call of setFeePercentage, setFeeCollectionAddress or
\* emergencyWithdraw by an account that is not the owner reverts and leaves the
\* fee settings and the contract's balances unchanged; such a call changes them
\* only when the owner makes it.
C28_OwnerOnly ==
  [][(out'.kind = "call" /\ out'.fn \in OwnerFunctions) =>
        /\ out'.sender # owner =>
              /\ out'.reverted
              /\ UNCHANGED <<feePercentage, feeCollectionAddress, balance, tokenBalance>>
        /\ ~out'.reverted => out'.sender = owner]_vars

\* an account that is not the owner has just tried to withdraw ETH the
\* contract holds
C28_Witness ==
  /\ out.kind = "call" /\ out.fn = "emergencyWithdraw"
  /\ out.sender # owner /\ out.reverted
  /\ out.arg > 0 /\ balance >= out.arg

(* ---- C29 ---- *)
\* C29: once deployed, feePercentage is at most 10000 and feeCollectionAddress
\* is not the zero address; a constructor or setter call whose argument would
\* break either reverts and changes nothing.
C29_FeeSettingsValid ==
  /\ [](deployed => feePercentage <= MAX_FEE /\ feeCollectionAddress # ZeroAddress)
  /\ [][out'.kind = "call" =>
          /\ (out'.fn \in {"constructor", "setFeePercentage"} /\ out'.arg > MAX_FEE) =>
                out'.reverted /\ UNCHANGED contractVars
          /\ (out'.fn = "constructor" /\ out'.address = ZeroAddress) =>
                out'.reverted /\ UNCHANGED contractVars
          /\ (out'.fn = "setFeeCollectionAddress" /\ out'.arg = ZeroAddress) =>
                out'.reverted /\ UNCHANGED contractVars]_vars

\* the owner has just been refused a fee above the limit
C29_Witness ==
  /\ out.kind = "call" /\ out.fn = "setFeePercentage"
  /\ out.sender = owner /\ out.arg > MAX_FEE /\ out.reverted
  /\ feePercentage = MAX_FEE

(* ---- C30 ---- *)
\* the step has started the timer of the subscription now stored for the pair
TimerStarted(k) ==
  LET o == subscriptions'[k]
  IN /\ o # NoObj
     /\ heap'[o].updateInterval
     /\ ~(heap[o] # Free /\ heap[o].updateInterval)

\* C30: addSubscription returns true exactly when the manager held no
\* subscription for the pair, and it starts the timer exactly when the
\* subscriber count of the pair goes from 0 to 1; joining a pair that has
\* subscribers starts no timer.
C30_SubscribeStartsCycle ==
  [][\A k \in Ids :
       (out'.kind = "subscribed" /\ out'.pairAddress = k) =>
          /\ out'.isNewSubscription <=> subscriptions[k] = NoObj
          /\ TimerStarted(k) <=> ( /\ Cardinality(SubscribersOf(k)) = 0
                                   /\ Cardinality(SubscribersOf(k)') = 1 )
          /\ SubscribersOf(k) # {} => TimersOf(k)' = TimersOf(k)]_vars

(* ---- C31 ---- *)
\* C31: removeSubscription returns true exactly when, after the call, the
\* manager still holds a subscription for the pair with at least one
\* subscriber.
C31_UnsubscribeReturnsRemaining ==
  [][\A k \in IdStrings :
       (out'.kind = "unsubscribed" /\ out'.pairAddress = k) =>
          (out'.remaining <=> ( /\ subscriptions'[k] # NoObj
                               /\ heap'[subscriptions'[k]].clients # {} ))]_vars

\* an unsubscribe has returned true, and one that removed the last subscriber
\* would return false: another client is still subscribed
C31_Witness ==
  /\ out.kind = "unsubscribed" /\ out.remaining /\ ~out.warned
  /\ SubscribersOf(out.pairAddress) # {}

(* ---- C32 ---- *)
\* C32: the subscription stored for a pair leaves the map only in an
\* unsubscribe or disconnect that removes its last subscriber, in a tick of its
\* own that takes its errorCount to the threshold, or in cleanup(); and every
\* subscription in the map has its timer running and errorCount below the
\* threshold.
C32_SubscriptionLifecycle ==
  /\ [](\A k \in IdStrings :
          subscriptions[k] # NoObj =>
            /\ heap[subscriptions[k]].updateInterval
            /\ heap[subscriptions[k]].errorCount < MAX_ERROR_COUNT)
  /\ [][\A k \in IdStrings :
          (subscriptions[k] # NoObj /\ subscriptions'[k] # subscriptions[k]) =>
             LET o == subscriptions[k]
             IN \/ /\ out'.kind \in {"unsubscribed", "disconnected"}
                   /\ heap[o].clients \ {out'.client} = {}
                \/ /\ out'.kind = "tick"
                   /\ out'.obj = o
                   /\ out'.priceUsd = Null
                   /\ heap[o].errorCount + 1 >= MAX_ERROR_COUNT
                \/ out'.kind = "cleanup"]_vars

(* ---- C33 ---- *)
\* C33: a tick whose fetch failed and that leaves errorCount below the
\* threshold changes nothing but the errorCount of its own subscription: the
\* map, the subscribers, lastPrice and the timer of that subscription and every
\* other subscription are as before, no update is emitted, and if the timer
\* runs the next tick can start its fetch.
C33_FailedFetchBelowThreshold ==
  [][(/\ out'.kind = "tick"
      /\ out'.priceUsd = Null
      /\ heap[out'.obj].errorCount + 1 < MAX_ERROR_COUNT) =>
       LET o == out'.obj
           counted == [heap[o] EXCEPT !.errorCount = @ + 1]
       IN /\ subscriptions' = subscriptions
          /\ \A q \in ObjIds \ {o} : heap'[q] = heap[q]
          /\ heap'[o] \in {counted, Free}
          /\ (subscriptions[heap[o].pairAddress] = o \/ heap[o].updateInterval) =>
                heap'[o] = counted
          /\ ~out'.emitted
          /\ out'.notified = {}
          /\ heap[o].updateInterval =>
                heap'[o].updateInterval /\ inflight'[o] < MaxInflight]_vars

\* a failed fetch below the threshold in a subscription that has a last price
\* and subscribers, while the other pair has a subscription too
C33_Witness ==
  /\ out.kind = "tick"
  /\ out.priceUsd = Null
  /\ heap[out.obj] # Free
  /\ heap[out.obj].errorCount \in 1..(MAX_ERROR_COUNT - 1)
  /\ heap[out.obj].lastPrice # Null
  /\ heap[out.obj].clients # {}
  /\ heap[out.obj].updateInterval
  /\ \E k \in FailIds : k # heap[out.obj].pairAddress /\ subscriptions[k] # NoObj

(* ---- C34 ---- *)
\* C34: in a tick that emits an update to a subscriber, the callback (and a
\* read of the stats made from it) finds lastPrice equal to the new price.
C34_CallbackSeesNewLastPrice ==
  [][(out'.kind = "tick" /\ out'.emitted /\ out'.notified # {}) =>
       out'.lastPriceSeen = out'.priceUsd]_vars

(* ---- C35 ---- *)
\* the identifier set the gateway consults for a client: the limit check of its
\* subscribe requests and the loop of its disconnect handler read it
TrackedFor(c) == connectionTracker[ipOf(c)].subscriptions

\* C35: the identifier set the gateway keeps for an open connection changes
\* only in a subscribe, unsubscribe or disconnect of that same client, also
\* when another client is connected from the same address.
C35_OwnSetOwnRequests ==
  [][\A c \in AllClients :
       (cstate[c] = "live" /\ TrackedFor(c)' # TrackedFor(c)) =>
          /\ out'.kind \in {"subscribed", "unsubscribed", "disconnected"}
          /\ out'.client = c]_vars

(* ---- C36 ---- *)
\* getSubscriptionStats(): totalClients, the sum of clients.size over the map
StatsTotalClients ==
  LET held == {<<k, c>> \in IdStrings \X AllClients : c \in SubscribersOf(k)}
  IN Cardinality(held)

\* the clients a running timer can still deliver an update to, per pair
Receivers == {<<k, c>> \in IdStrings \X AllClients :
                \E o \in TimersOf(k) : c \in heap[o].clients}

\* C36: every running timer belongs to the subscription stored in the map
\* under its pair, so the stats list every pair that is still being fetched
\* and their total client count covers every client that can still receive an
\* update.
C36_TimersAreInRegistry ==
  /\ \A k \in IdStrings : \A o \in TimersOf(k) : subscriptions[k] = o
  /\ \A k \in IdStrings : TimersOf(k) # {} => k \in StatsPairs
  /\ StatsTotalClients >= Cardinality(Receivers)

(* ---- C37 ---- *)
\* C37: when cleanup() has returned the map is empty and no timer runs, and a
\* tick delivers an update only for a subscription that is in the map, so none
\* is delivered for a subscription cleanup() removed, also when its fetch was
\* in flight at the time.
C37_CleanupIsFinal ==
  /\ [][out'.kind = "cleanup" =>
          \A k \in IdStrings : subscriptions'[k] = NoObj /\ TimersOf(k)' = {}]_vars
  /\ [][(out'.kind = "tick" /\ out'.notified # {}) =>
          subscriptions[heap[out'.obj].pairAddress] = out'.obj]_vars

(* ---- C38 ---- *)
\* getWebSocketStats(): the connection count tracked for an address (0 without
\* a record)
TrackedCount(ip) == IF connectionTracker[ip].present THEN connectionTracker[ip].count ELSE 0

\* C38: for every address the tracked connection count is the number of its
\* open accepted connections, and its record exists as long as one of them is
\* open.
C38_CountMatchesLiveConnections ==
  \A ip \in AllIPs :
     /\ TrackedCount(ip) = Cardinality(LiveFrom(ip))
     /\ LiveFrom(ip) # {} => connectionTracker[ip].present

(* ---- C39 ---- *)
\* C39: a tick whose fetch was started before the fetch of a tick that has
\* already got its price neither stores its price as lastPrice nor delivers it.
C39_PricesInFetchOrder ==
  [][\A o \in ObjIds, i \in 1..MaxInflight, p \in PriceStrings :
       (FetchSettles(o, i, p, {}) /\ i <= overtaken[o]) =>
          /\ ~out'.emitted
          /\ out'.notified = {}
          /\ heap'[o] # Free => heap'[o].lastPrice = heap[o].lastPrice]_vars

(* ---- C40 ---- *)
\* the step is the rest of a handler after its await fetchTrendingTokens()
FetchCompletes(r) ==
  /\ requests[r].pc = "fetching"
  /\ requests'[r].pc = "idle"

\* C40: fetchInProgress is true exactly while the fetch of a handler is in
\* flight, the step in which that fetch completes clears it whether the
\* provider answered or not, and a set flag is always cleared again.
C40_FlagTracksFetch ==
  /\ [](fetchInProgress <=> InFlight # {})
  /\ [][\A r \in Requesters : FetchCompletes(r) => ~fetchInProgress']_vars
  /\ (fetchInProgress ~> ~fetchInProgress)

\* a fetch that got nothing from the provider has completed and the flag is
\* clear
C40_Witness ==
  /\ out.kind = "trending"
  /\ out.fetched
  /\ ~out.upstreamOk
  /\ ~fetchInProgress
  /\ InFlight = {}

====
